---- MODULE Spec2Model ----
(***************************************************************************)
(* Cluster provisioning orchestrator of openshift-qemu: the cohort track   *)
(* (CreateNodes: create bootstrap/master/worker VMs, address every node,   *)
(* wait for SSH on the bootstrap node) and the two readiness pollers       *)
(* (waitForVMIP, WaitForSSHAccess), against a hypervisor, a host-mapping   *)
(* file and an SSH endpoint that are external to the program.              *)
(*                                                                         *)
(* VM names are modelled without the constant "<cluster>-" prefix:         *)
(*   <<"bootstrap">>     is  fmt.Sprintf("%s-bootstrap", cluster)          *)
(*   <<"master", 2>>     is  fmt.Sprintf("%s-%s-%d", cluster, "master", 2) *)
(* so two names are equal exactly when the formatted strings are equal.    *)
(*                                                                         *)
(* Five specifications share the variables:                                *)
(*   Spec     the cohort track (CreateNodes)                               *)
(*   SSHSpec  WaitForSSHAccess on its own, with a fair loop                *)
(*   CmdSpec  the commands, each after init(): the root command (argument  *)
(*            and user checks, CheckDependencies, EnsureLibvirtNetwork,    *)
(*            then the DNS check TestDNS), create-lb (EnsureLibvirtNetwork,*)
(*            then CreateLBVM) and download (CreateHostsAndDNSConfig)      *)
(*   SysSpec  the systemd wrapper on its own, its methods in any order     *)
(*   VMSpec   StartVM, StopVM and DestroyVM on their own, in any order     *)
(***************************************************************************)
EXTENDS Integers, Sequences, FiniteSets, TLC

\* ------------------------------------------------------------------ bounds
MaxMasters == 2
MaxWorkers == 1
MaxAttempts == 4

\* ------------------------------------------------------- program constants
\* time.Sleep(5 * time.Second) in waitForVMIP
LeaseDelay == 5

\* ------------------------------------------------------------ input values
\* params.VirNet: the cluster's virtual network name
VirNet == "ocp-net"
IPv4Addrs == {"192.168.7.10", "192.168.7.11"}
IPv6Addrs == {"fe80::1"}
MACs == {"52:54:00:00:00:01", "52:54:00:00:00:02"}
\* params.ClusterName and params.BaseDomain
ClusterName == "ocp"
BaseDomain == "example.com"

\* strings.Contains(addr.Addr, "."): of the address strings above exactly the
\* dotted-quad ones contain a "."
ContainsDot(a) == a \in IPv4Addrs

Addr(t, a) == [type |-> t, addr |-> a]
Iface(hw, addrs) == [hwaddr |-> hw, addrs |-> addrs]

\* Answers the hypervisor's lease-sourced interface query can give.
IfaceLists ==
  { << >>,
    << Iface("", << Addr("ipv4", "192.168.7.10") >>) >>,
    << Iface("52:54:00:00:00:01", << Addr("ipv6", "fe80::1") >>) >>,
    << Iface("52:54:00:00:00:01",
             << Addr("ipv6", "fe80::1"), Addr("ipv4", "192.168.7.10") >>) >>,
    << Iface("", << Addr("ipv4", "192.168.7.10") >>),
       Iface("52:54:00:00:00:02",
             << Addr("ipv4", "192.168.7.11"), Addr("ipv4", "192.168.7.10") >>) >> }

VARIABLES
  params,        \* NodeParams: NMaster, NWorker, VirNet
  pc,            \* position of the running command
  role,          \* waitForVMIPs: index into roles
  i,             \* loop index of createMasterNodes/createWorkerNodes/waitForVMIPs
  waitRet,       \* (ip, mac, err) returned by the last waitForVMIP
  leaseSrc,      \* interface list the hypervisor answered to the last GetVMIP
  slept,         \* time units slept by the last waitForVMIP call
  sshIP,         \* vmIP argument of WaitForSSHAccess
  sshHost,       \* host argument of WaitForSSHAccess
  sshUser,       \* sshUser argument of WaitForSSHAccess
  sshAttempts,   \* SSH attempts made (saturating at MaxAttempts)
  sshUp,         \* the guest's SSH daemon accepts connections
  result,        \* "running", or how the command ended: "ok", "err", "fatal"
  log,           \* calls issued so far, in order
  domains,       \* hypervisor: names of the existing domains
  networks,      \* hypervisor: names of the existing networks
  reservations,  \* hypervisor: DHCP host entries added
  hostsFile,     \* /etc/hosts.<cluster>
  cmd,           \* the command that runs: "root" or "create-lb"
  virNetOct,     \* flag --libvirt-oct
  defLibvirtNet, \* flag --libvirt-network
  virNet,        \* EnsureLibvirtNetwork: its parameter virNet, which it reassigns
  netRet,        \* (bridgeName, gatewayIP, err) returned by EnsureLibvirtNetwork
  netDesc,       \* hypervisor: the network object of every existing network
  domainXML,     \* hypervisor: the definition of every existing domain
  running,       \* hypervisor: names of the domains that are running
  submitted,     \* the VMParams passed to CreateVM so far, in order
  lbErr,         \* create-lb: what CreateLBVM returned ("" before it returns)
  dnsFiles,      \* TestDNS: the test files that exist, path |-> content
  svc,           \* a systemd.Systemd struct held by a caller of the wrapper
  sysCall,       \* the last method called on svc: struct before, error, commands
  sysLast,       \* the last of Start/Stop/Restart/Reload that returned nil
  persistent     \* hypervisor: names of the domains with a persistent definition

vars == << params, pc, role, i, waitRet, leaseSrc, slept, sshIP, sshHost,
           sshUser, sshAttempts, sshUp, result, log, domains, networks,
           reservations, hostsFile, cmd, virNetOct, defLibvirtNet, virNet,
           netRet, netDesc, domainXML, running, submitted, lbErr, dnsFiles,
           svc, sysCall, sysLast, persistent >>

sysv == << svc, sysCall, sysLast >>
aux == << dnsFiles, sysv, persistent >>

\* ------------------------------------------------------------------ names
VMNameRole(r) == << r >>
VMNameRoleIdx(r, k) == << r, k >>

NoNode == << >>
Call(op, node, name, net, mac, ip, res) ==
  [op |-> op, node |-> node, name |-> name, net |-> net, mac |-> mac,
   ip |-> ip, res |-> res]

Min(a, b) == IF a < b THEN a ELSE b

\* --------------------------------------------------------- pure functions
\* GetVMIP, inner loop: index of the first address of type IPv4 that contains
\* a ".", or 0
RECURSIVE ScanAddrs(_, _)
ScanAddrs(addrs, k) ==
  IF k > Len(addrs) THEN 0
  ELSE IF addrs[k].type = "ipv4" /\ ContainsDot(addrs[k].addr) THEN k
  ELSE ScanAddrs(addrs, k + 1)

\* GetVMIP, outer loop: the first interface with a non-empty Hwaddr that has
\* such an address; ("", "", nil) when the loops run out
RECURSIVE ScanIfaces(_, _)
ScanIfaces(ifaces, k) ==
  IF k > Len(ifaces) THEN [ip |-> "", mac |-> "", err |-> ""]
  ELSE IF ifaces[k].hwaddr # "" /\ ScanAddrs(ifaces[k].addrs, 1) # 0
       THEN [ip  |-> ifaces[k].addrs[ScanAddrs(ifaces[k].addrs, 1)].addr,
             mac |-> ifaces[k].hwaddr,
             err |-> ""]
       ELSE ScanIfaces(ifaces, k + 1)

\* GetVMIP(conn, vmName): found is the outcome of LookupDomainByName, ifacesErr
\* that of ListAllInterfaceAddresses, ifaces its answer. err "" is nil.
GetVMIP(found, ifacesErr, ifaces) ==
  IF ~found THEN [ip |-> "", mac |-> "", err |-> "lookup"]
  ELSE IF ifacesErr THEN [ip |-> "", mac |-> "", err |-> "ifaces"]
  ELSE ScanIfaces(ifaces, 1)

\* waitForVMIP, after the sleep and the query g: the valid pair, or
\* ("", "", err) from the unconditional return that ends the loop body
waitForVMIPRet(g) ==
  IF g.err = "" /\ g.ip # "" /\ g.mac # ""
  THEN [ip |-> g.ip, mac |-> g.mac, err |-> ""]
  ELSE [ip |-> "", mac |-> "", err |-> g.err]

\* AddDHCPReservation(conn, networkName, macAddress, ipAddress): nets and
\* resv are the hypervisor's networks and DHCP host entries, updateOk the
\* outcome of network.Update
AddDHCPReservation(nets, resv, networkName, macAddress, ipAddress, updateOk) ==
  IF networkName \notin nets THEN [err |-> "lookup", resv |-> resv]
  ELSE IF ~updateOk THEN [err |-> "update", resv |-> resv]
  ELSE [err  |-> "",
        resv |-> resv \cup {[net |-> networkName, mac |-> macAddress,
                             ip |-> ipAddress]}]

\* One line of /etc/hosts.<cluster>: the entries (ip, host) it holds
HostsEntry(ip, host) == [ip |-> ip, host |-> host]
NoFile == [exists |-> FALSE, lines |-> << >>, eol |-> TRUE]

\* updateHostDNS: os.WriteFile(path, []byte(hostsEntry), 0o644) creates or
\* truncates the file and writes the entry, with no trailing newline
updateHostDNS(file, ip, vmName) ==
  [exists |-> TRUE, lines |-> << << HostsEntry(ip, vmName) >> >>, eol |-> FALSE]

\* waitForVMIPs: roles := []string{"bootstrap", "master", "worker"}
roles_workersFirst == << "bootstrap", "worker", "master" >>
roles == << "bootstrap", "master", "worker" >>

getRoleCount(p, r) ==
  CASE r = "bootstrap" -> 1
    [] r = "master" -> p.NMaster
    [] r = "worker" -> p.NWorker
    [] OTHER -> 0

\* CreateNodes: the stage that follows a stage that returned nil
StageAfter_skipWorkers(stage) ==
  CASE stage = "connect" -> "create_bootstrap"
    [] stage = "create_bootstrap" -> "create_master"
    [] stage = "create_master" -> "addr_loop"
    [] stage = "create_worker" -> "addr_loop"
    [] stage = "addr_loop" -> "final_getip"
StageAfter(stage) ==
  CASE stage = "connect" -> "create_bootstrap"
    [] stage = "create_bootstrap" -> "create_master"
    [] stage = "create_master" -> "create_worker"
    [] stage = "create_worker" -> "addr_loop"
    [] stage = "addr_loop" -> "final_getip"

\* createMasterNodes: if err != nil { return err }
createMasterNodesReturns_ignoreErr(err) == FALSE
createMasterNodesReturns(err) == err # ""

\* createWorkerNodes: if err != nil { return err }
createWorkerNodesReturns(err) == err # ""

\* waitForVMIPs: libvirt.AddDHCPReservation(conn, ip, mac, params.VirNet), the
\* arguments as AddDHCPReservation(conn, networkName, macAddress, ipAddress)
\* receives them
waitForVMIPsReserveArgs(ip, mac, net) ==
  [networkName |-> ip, macAddress |-> mac, ipAddress |-> net]

\* waitForVMIPs: if err != nil { logging.Fatal(...) }
waitForVMIPsFatal_logOnly(err) == FALSE
waitForVMIPsFatal(err) == err # ""

\* WaitForSSHAccess: what follows an attempt: return nil when cmd.Run()
\* gave no error, otherwise the next round of the loop
sshAfterAttempt_giveUp(attemptOk) == IF attemptOk THEN "return_nil" ELSE "return_err"
sshAfterAttempt(attemptOk) == IF attemptOk THEN "return_nil" ELSE "retry"

\* fmt.Sprintf("%s.%s.%s", node, params.ClusterName, params.BaseDomain): the
\* host argument that the call sites of WaitForSSHAccess pass
SSHHost(node) == node \o "." \o ClusterName \o "." \o BaseDomain

\* WaitForSSHAccess: the targets of its two removeOldHostKey calls, in order
WaitForSSHAccessPurges(vmIP, host) == << vmIP, host >>

\* WaitForSSHAccess: if err != nil { return err } after each removeOldHostKey
WaitForSSHAccessPurgeFailed_ignoreErr(err) == FALSE
WaitForSSHAccessPurgeFailed(err) == err # ""

\* fmt.Sprintf("%s/%s-bootstrap.qcow2", params.VMDir, params.ClusterName):
\* directory, file name without the "<cluster>-" prefix, extension
bootstrapDiskPath(vmDir) == << vmDir, VMNameRole("bootstrap"), "qcow2" >>
\* fmt.Sprintf("%s/%s-master-%d.qcow2", params.VMDir, params.ClusterName, i)
masterDiskPath_noIndex(vmDir, k) == << vmDir, VMNameRole("master"), "qcow2" >>
masterDiskPath(vmDir, k) == << vmDir, VMNameRoleIdx("master", k), "qcow2" >>
\* fmt.Sprintf("%s/%s-worker-%d.qcow2", params.VMDir, params.ClusterName, i)
workerDiskPath(vmDir, k) == << vmDir, VMNameRoleIdx("worker", k), "qcow2" >>

\* libvirt.VMParams (Memory, CPUs and OSVariant left out); ExtraArgs is
\* represented by the ignition file it names
VMParams(name, diskPath, location, extraArgs, network) ==
  [Name |-> name, DiskPath |-> diskPath, Location |-> location,
   ExtraArgs |-> extraArgs, Network |-> network]

bootstrapParams(p) ==
  VMParams(VMNameRole("bootstrap"), bootstrapDiskPath(p.VMDir),
           "rhcos-install/", "bootstrap.ign", p.VirNet)
masterParams(p, k) ==
  VMParams(VMNameRoleIdx("master", k), masterDiskPath(p.VMDir, k),
           "rhcos-install/", "master.ign", p.VirNet)
workerParams(p, k) ==
  VMParams(VMNameRoleIdx("worker", k), workerDiskPath(p.VMDir, k),
           "rhcos-install/", "worker.ign", p.VirNet)

\* CreateVM: the fields of params that domainXML carries
DomainXML(vmp) ==
  [name |-> vmp.Name, disk |-> vmp.DiskPath, network |-> vmp.Network]

\* ------------------------------------------------------------ environment
\* CreateVM: conn.DomainCreateXML fails when a domain of that name exists or
\* when the hypervisor refuses the definition
CreateVM_idempotent(doms, name, refused) ==
  IF refused
  THEN [err |-> "create", doms |-> doms]
  ELSE [err |-> "", doms |-> doms \cup {name}]
CreateVM(doms, name, refused) ==
  IF name \in doms \/ refused
  THEN [err |-> "create", doms |-> doms]
  ELSE [err |-> "", doms |-> doms \cup {name}]

\* Whether an SSH attempt against ip completes without error
HostAccepts(ip, up) == up /\ ip # ""

prog == << params, role, i, waitRet, leaseSrc, slept >>
sshv == << sshIP, sshHost, sshUser, sshAttempts, sshUp >>
hyp == << domains, networks, reservations, domainXML, running, submitted >>
flags == << cmd, virNetOct, defLibvirtNet, lbErr >>
netv == << virNet, netRet, netDesc >>

\* logging.Fatal: the process exits with status 1
Fatal == pc' = "exit" /\ result' = "fatal"
\* Where a return of the track's function leads: CreateNodes and
\* WaitForSSHAccess (run on their own) end the run with what they return,
\* CreateLBVM returns into createLBCmd
ReturnPC == IF cmd = "create-lb" THEN "lb_return" ELSE "exit"
\* the function returns an error to its caller
ReturnErr == pc' = ReturnPC /\ result' = "err"
ReturnNil == pc' = ReturnPC /\ result' = "ok"

\* CreateVM(conn, vmp) has returned c: the hypervisor's domains afterwards.
\* DomainCreateXML leaves the new domain running.
DomainCreateXML(c, vmp) ==
  /\ domains' = c.doms
  /\ domainXML' = IF c.err = "" THEN (vmp.Name :> DomainXML(vmp)) @@ domainXML
                  ELSE domainXML
  /\ running' = IF c.err = "" THEN running \cup {vmp.Name} ELSE running
  /\ submitted' = Append(submitted, vmp)

\* ---------------------------------------------------------------- actions
\* CreateNodes: libvirt.NewLibvirtConnection
NewLibvirtConnection ==
  /\ pc = "connect"
  /\ \E ok \in BOOLEAN :
       IF ok THEN pc' = StageAfter("connect") /\ result' = result
             ELSE Fatal
  /\ UNCHANGED << aux, flags, netv, prog, sshv, hyp, log, hostsFile >>

\* CreateNodes: createBootstrapNode, and the caller's error check
createBootstrapNode ==
  /\ pc = "create_bootstrap"
  /\ \E refused \in BOOLEAN :
       LET vmp == bootstrapParams(params)
           name == vmp.Name
           c == CreateVM(domains, name, refused)
       IN /\ DomainCreateXML(c, vmp)
          /\ log' = Append(log, Call("CreateVM", NoNode, name, params.VirNet,
                                     "", "", c.err))
          /\ IF c.err # "" THEN Fatal /\ i' = i
             ELSE pc' = StageAfter("create_bootstrap") /\ i' = 1 /\ result' = result
  /\ UNCHANGED << aux, flags, netv, params, role, waitRet, leaseSrc, slept, sshv, networks,
                  reservations, hostsFile >>

\* CreateNodes: createMasterNodes, one round of its loop
createMasterNodes ==
  /\ pc = "create_master"
  /\ \/ /\ i > params.NMaster
        /\ pc' = StageAfter("create_master")
        /\ i' = 1
        /\ UNCHANGED << aux, result, log, domains, domainXML, running, submitted >>
     \/ /\ i <= params.NMaster
        /\ \E refused \in BOOLEAN :
             LET vmp == masterParams(params, i)
                 name == vmp.Name
                 c == CreateVM(domains, name, refused)
             IN /\ DomainCreateXML(c, vmp)
                /\ log' = Append(log, Call("CreateVM", NoNode, name,
                                           params.VirNet, "", "", c.err))
                /\ IF createMasterNodesReturns(c.err) THEN Fatal /\ i' = i
                   ELSE pc' = pc /\ i' = i + 1 /\ result' = result
  /\ UNCHANGED << aux, flags, netv, params, role, waitRet, leaseSrc, slept, sshv, networks,
                  reservations, hostsFile >>

\* CreateNodes: createWorkerNodes, one round of its loop
createWorkerNodes ==
  /\ pc = "create_worker"
  /\ \/ /\ i > params.NWorker
        /\ pc' = StageAfter("create_worker")
        /\ i' = 1
        /\ UNCHANGED << aux, result, log, domains, domainXML, running, submitted >>
     \/ /\ i <= params.NWorker
        /\ \E refused \in BOOLEAN :
             LET vmp == workerParams(params, i)
                 name == vmp.Name
                 c == CreateVM(domains, name, refused)
             IN /\ DomainCreateXML(c, vmp)
                /\ log' = Append(log, Call("CreateVM", NoNode, name,
                                           params.VirNet, "", "", c.err))
                /\ IF createWorkerNodesReturns(c.err) THEN Fatal /\ i' = i
                   ELSE pc' = pc /\ i' = i + 1 /\ result' = result
  /\ UNCHANGED << aux, flags, netv, params, role, waitRet, leaseSrc, slept, sshv, networks,
                  reservations, hostsFile >>

\* waitForVMIPs: the nested loop heads (range roles; i <= getRoleCount)
waitForVMIPs ==
  /\ pc = "addr_loop"
  /\ \/ /\ role > Len(roles)
        /\ pc' = StageAfter("addr_loop")
        /\ UNCHANGED << aux, role, i, slept >>
     \/ /\ role <= Len(roles)
        /\ i > getRoleCount(params, roles[role])
        /\ role' = role + 1
        /\ i' = 1
        /\ UNCHANGED << aux, pc, slept >>
     \/ /\ role <= Len(roles)
        /\ i <= getRoleCount(params, roles[role])
        /\ pc' = "lease_wait"
        /\ slept' = 0
        /\ UNCHANGED << aux, role, i >>
  /\ UNCHANGED << aux, flags, netv, params, waitRet, leaseSrc, sshv, hyp, result, log, hostsFile >>

\* waitForVMIPs: ip, mac, err := waitForVMIP(conn, vmName), i.e. the sleep, the
\* GetVMIP query and the return of waitForVMIP, then the caller's error check
waitForVMIP ==
  /\ pc = "lease_wait"
  /\ \E ifacesErr \in BOOLEAN :
       \E ifaces \in (IF ifacesErr THEN {<< >>} ELSE IfaceLists) :
         LET node == << roles[role], i >>
             vmName == VMNameRoleIdx(roles[role], i)
             g == GetVMIP(vmName \in domains, ifacesErr, ifaces)
             ret == waitForVMIPRet(g)
             res == IF g.err # "" THEN g.err
                    ELSE IF g.ip = "" \/ g.mac = "" THEN "none" ELSE "lease"
         IN /\ slept' = slept + LeaseDelay
            /\ leaseSrc' = IF g.err = "" THEN ifaces ELSE << >>
            /\ waitRet' = ret
            /\ log' = Append(log, Call("waitForVMIP", node, vmName, "",
                                       ret.mac, ret.ip, res))
            /\ IF waitForVMIPsFatal(ret.err) THEN Fatal
               ELSE pc' = "reserve" /\ result' = result
  /\ UNCHANGED << aux, flags, netv, params, role, i, sshv, hyp, hostsFile >>

\* waitForVMIPs: libvirt.AddDHCPReservation(conn, ip, mac, params.VirNet)
waitForVMIPsReserve ==
  /\ pc = "reserve"
  /\ \E updateOk \in BOOLEAN :
       LET node == << roles[role], i >>
           args == waitForVMIPsReserveArgs(waitRet.ip, waitRet.mac, params.VirNet)
           a == AddDHCPReservation(networks, reservations, args.networkName,
                                   args.macAddress, args.ipAddress, updateOk)
       IN /\ reservations' = a.resv
          /\ log' = Append(log, Call("AddDHCPReservation", node,
                                     VMNameRoleIdx(roles[role], i),
                                     args.networkName, args.macAddress,
                                     args.ipAddress, a.err))
          /\ IF a.err # "" THEN ReturnErr
             ELSE pc' = "publish" /\ result' = result
  /\ UNCHANGED << aux, flags, netv, prog, sshv, domains, networks, domainXML,
                  running, submitted, hostsFile >>

\* waitForVMIPs: updateHostDNS(params, ip, vmName), then the next round
waitForVMIPsPublish ==
  /\ pc = "publish"
  /\ \E writeOk \in BOOLEAN :
       LET node == << roles[role], i >>
           vmName == VMNameRoleIdx(roles[role], i)
       IN /\ log' = Append(log, Call("updateHostDNS", node, vmName, "", "",
                                     waitRet.ip, IF writeOk THEN "" ELSE "write"))
          /\ IF writeOk
             THEN /\ hostsFile' = updateHostDNS(hostsFile, waitRet.ip, vmName)
                  /\ pc' = "addr_loop"
                  /\ i' = i + 1
                  /\ result' = result
             ELSE Fatal /\ UNCHANGED << aux, hostsFile, i >>
  /\ UNCHANGED << aux, flags, netv, params, role, waitRet, leaseSrc, slept, sshv, hyp >>

\* CreateNodes: bootstrapIP, _, err := libvirt.GetVMIP(conn, "<cluster>-bootstrap")
\* (err is not read), then the call of WaitForSSHAccess(bootstrapIP, ..., "core")
CreateNodesGetVMIP ==
  /\ pc = "final_getip"
  /\ \E ifacesErr \in BOOLEAN :
       \E ifaces \in (IF ifacesErr THEN {<< >>} ELSE IfaceLists) :
         LET name == VMNameRole("bootstrap")
             g == GetVMIP(name \in domains, ifacesErr, ifaces)
         IN /\ leaseSrc' = IF g.err = "" THEN ifaces ELSE << >>
            /\ sshIP' = g.ip
            /\ sshHost' = SSHHost("bootstrap")
            /\ sshUser' = "core"
            /\ log' = Append(log, Call("GetVMIP", NoNode, name, "", g.mac, g.ip,
                                       IF g.err # "" THEN g.err
                                       ELSE IF g.ip = "" THEN "none" ELSE "lease"))
  /\ pc' = "ssh_purge_ip"
  /\ UNCHANGED << aux, flags, netv, params, role, i, waitRet, slept, sshAttempts, sshUp, hyp,
                  result, hostsFile >>

\* removeOldHostKey(host): exec.Command("ssh-keygen", "-R", host).Run(), whose
\* error is returned
removeOldHostKey(host, runErr) ==
  Call("removeOldHostKey", NoNode, << >>, "", "", host, runErr)

\* WaitForSSHAccess: err := removeOldHostKey(vmIP)
removeOldHostKeyIP ==
  /\ pc = "ssh_purge_ip"
  /\ \E runErr \in {"", "keygen"} :
       /\ log' = log \o << Call("WaitForSSHAccess", NoNode, << >>, "", "", sshIP, ""),
                           removeOldHostKey(WaitForSSHAccessPurges(sshIP, sshHost)[1],
                                            runErr) >>
       /\ IF WaitForSSHAccessPurgeFailed(runErr) THEN ReturnErr
          ELSE pc' = "ssh_purge_host" /\ result' = result
  /\ UNCHANGED << aux, flags, netv, prog, sshv, hyp, hostsFile >>

\* WaitForSSHAccess: err = removeOldHostKey(host)
removeOldHostKeyHost ==
  /\ pc = "ssh_purge_host"
  /\ \E runErr \in {"", "keygen"} :
       /\ log' = Append(log, removeOldHostKey(WaitForSSHAccessPurges(sshIP, sshHost)[2],
                                              runErr))
       /\ IF WaitForSSHAccessPurgeFailed(runErr) THEN ReturnErr
          ELSE pc' = "ssh_loop" /\ result' = result
  /\ UNCHANGED << aux, flags, netv, prog, sshv, hyp, hostsFile >>

\* WaitForSSHAccess: one round of the loop: the sleep, the ssh command, and
\* the return or the next round
WaitForSSHAccess ==
  /\ pc = "ssh_loop"
  /\ sshAttempts' = Min(sshAttempts + 1, MaxAttempts)
  /\ LET nxt == sshAfterAttempt(HostAccepts(sshIP, sshUp))
     IN CASE nxt = "return_nil" -> ReturnNil
          [] nxt = "retry" -> pc' = pc /\ result' = result
          [] nxt = "return_err" -> ReturnErr
  /\ UNCHANGED << aux, flags, netv, prog, sshIP, sshHost, sshUser, sshUp, hyp, log, hostsFile >>

\* The guest finishes booting and its SSH daemon starts to accept connections
\* (observable only by the SSH attempts, hence placed with them)
GuestSSHUp ==
  /\ pc \in {"ssh_purge_ip", "ssh_purge_host", "ssh_loop"}
  /\ ~sshUp
  /\ sshUp' = TRUE
  /\ UNCHANGED << aux, flags, netv, prog, pc, sshIP, sshHost, sshUser, sshAttempts, hyp, result,
                  log, hostsFile >>

\* ---------------------------------------------------------- network manager
\* Values of the flags --libvirt-oct and --libvirt-network
Octets == {"", "100"}
NetNames == {"", "default"}

\* fmt.Sprintf("ocp-%s", virNetOct)
OcpNetworkName(oct) == "ocp-" \o oct

\* createNewLibvirtNetwork: what networkXML defines
networkXML_poolFromGateway(networkName, oct) ==
  [name       |-> networkName,
   bridge     |-> networkName,
   address    |-> "192.168." \o oct \o ".1",
   netmask    |-> "255.255.255.0",
   rangeStart |-> "192.168." \o oct \o ".1",
   rangeEnd   |-> "192.168." \o oct \o ".254"]
networkXML(networkName, oct) ==
  [name       |-> networkName,
   bridge     |-> networkName,
   address    |-> "192.168." \o oct \o ".1",
   netmask    |-> "255.255.255.0",
   rangeStart |-> "192.168." \o oct \o ".2",
   rangeEnd   |-> "192.168." \o oct \o ".254"]

\* The hypervisor's network object: the definition and its two flags
Network(def, autostart, active) ==
  [def |-> def, autostart |-> autostart, active |-> active]

\* network.GetXMLDesc(0): the descriptor as a sequence of tokens; q is the
\* character the hypervisor's formatter puts around attribute values
\* (libvirt writes an apostrophe, networkXML above a double quote)
QuoteChars == {"'", "\""}
GetXMLDesc(d, q) ==
  << "<network>", "<name>", d.name, "</name>" >>
    \o (IF d.bridge = "" THEN << >>
        ELSE << "<bridge name=", q, d.bridge, q, "/>" >>)
    \o (IF d.address = "" THEN << >>
        ELSE << "<ip address=", q, d.address, q, " netmask=", q, d.netmask, q, ">",
                "<dhcp>", "<range start=", q, d.rangeStart, q,
                " end=", q, d.rangeEnd, q, "/>", "</dhcp>", "</ip>" >>)
    \o << "</network>" >>

\* strings.Index on tokens: the first position from k on that holds tok, or 0
RECURSIVE IndexFrom(_, _, _)
IndexFrom(xml, tok, k) ==
  IF k > Len(xml) THEN 0
  ELSE IF xml[k] = tok THEN k
  ELSE IndexFrom(xml, tok, k + 1)

\* getLibvirtNetworkGatewayIP, the parse: the text between the character
\* that follows `<ip address=` and the next double quote
ParseGatewayIP_fromTag(xmlDesc) ==
  LET ipAddrStart == IndexFrom(xmlDesc, "<ip address=", 1)
  IN IF ipAddrStart = 0 THEN [ip |-> << >>, err |-> "notfound"]
     ELSE LET from == ipAddrStart + 1
              ipAddrEnd == IndexFrom(xmlDesc, "\"", from + 1)
          IN IF ipAddrEnd = 0 THEN [ip |-> << >>, err |-> "malformed"]
             ELSE [ip |-> SubSeq(xmlDesc, from, ipAddrEnd - 1), err |-> ""]
ParseGatewayIP(xmlDesc) ==
  LET ipAddrStart == IndexFrom(xmlDesc, "<ip address=", 1)
  IN IF ipAddrStart = 0 THEN [ip |-> << >>, err |-> "notfound"]
     ELSE LET from == ipAddrStart + 2
              ipAddrEnd == IndexFrom(xmlDesc, "\"", from)
          IN IF ipAddrEnd = 0 THEN [ip |-> << >>, err |-> "malformed"]
             ELSE [ip |-> SubSeq(xmlDesc, from, ipAddrEnd - 1), err |-> ""]

\* One call on the hypervisor's network API
NetCall(op, net, res) == Call(op, NoNode, << >>, net, "", "", res)

\* createNewLibvirtNetwork(conn, networkName, virNetOct): NetworkDefineXML,
\* SetAutostart(true), network.Create(); failAt names the call that fails
createNewLibvirtNetwork(nets, desc, networkName, oct, failAt) ==
  LET def == networkXML(networkName, oct)
      defined(a, b) == (networkName :> Network(def, a, b)) @@ desc
      define(r) == NetCall("NetworkDefineXML", networkName, r)
      autostart(r) == NetCall("SetAutostart", networkName, r)
      create(r) == NetCall("NetworkCreate", networkName, r)
  IN CASE failAt = "define" ->
            [err |-> "define", nets |-> nets, desc |-> desc,
             calls |-> << define("define") >>]
       [] failAt = "autostart" ->
            [err |-> "autostart", nets |-> nets \cup {networkName},
             desc |-> defined(FALSE, FALSE),
             calls |-> << define(""), autostart("autostart") >>]
       [] failAt = "start" ->
            [err |-> "start", nets |-> nets \cup {networkName},
             desc |-> defined(TRUE, FALSE),
             calls |-> << define(""), autostart(""), create("start") >>]
       [] OTHER ->
            [err |-> "", nets |-> nets \cup {networkName},
             desc |-> defined(TRUE, TRUE),
             calls |-> << define(""), autostart(""), create("") >>]

\* rootCmd.Run: if err != nil { log.Fatalf(...) } after EnsureLibvirtNetwork
rootCmdNetFatal(err) == err # ""

\* createLBCmd: `_, gatewayIP, err := libvirt.EnsureLibvirtNetwork(...)` is
\* followed by `err = cluster.CreateLBVM(...)`: err is not read
createLBCmdAfterEnsure(err) == "lb_connect"

\* EnsureLibvirtNetwork returns (bridgeName, gatewayIP, err) to the command
EnsureLibvirtNetworkReturns(bridgeName, gatewayIP, err) ==
  /\ netRet' = [bridge |-> bridgeName, gateway |-> gatewayIP, err |-> err]
  /\ IF cmd = "root"
     THEN IF rootCmdNetFatal(err) THEN Fatal
          ELSE pc' = "root_testdns" /\ result' = result
     ELSE pc' = createLBCmdAfterEnsure(err) /\ result' = result

netIdle == << prog, sshv, flags, domains, reservations, domainXML, running,
             submitted, hostsFile >>

\* rootCmd.Run: the check of the two network flags; utils.CheckDependencies
\* follows
rootCmdRun ==
  /\ pc = "root_flags"
  /\ IF defLibvirtNet # "" /\ virNetOct # ""
     THEN Fatal /\ defLibvirtNet' = defLibvirtNet
     ELSE /\ defLibvirtNet' = IF defLibvirtNet = "" /\ virNetOct = ""
                              THEN "default" ELSE defLibvirtNet
          /\ pc' = "dep_exec"
          /\ result' = result
  /\ UNCHANGED << aux, prog, sshv, cmd, virNetOct, lbErr, netv, hyp, log, hostsFile >>

\* EnsureLibvirtNetwork(virNetOct, virNet, backend): NewLibvirtConnection
EnsureLibvirtNetworkConnect ==
  /\ pc = "net_connect"
  /\ virNet' = defLibvirtNet
  /\ \E res \in {"", "connect"} :
       /\ log' = log \o << NetCall("EnsureLibvirtNetwork", defLibvirtNet, ""),
                           NetCall("NewLibvirtConnection", "", res) >>
       /\ IF res # "" THEN EnsureLibvirtNetworkReturns("", << >>, res)
          ELSE pc' = "net_resolve" /\ UNCHANGED << aux, netRet, result >>
  /\ UNCHANGED << aux, netIdle, networks, netDesc >>

\* EnsureLibvirtNetwork: the branch taken on virNetOct, virNet and the
\* outcome of LookupNetworkByName
EnsureLibvirtNetworkBranch_createMissing(oct, net, nets) ==
  IF oct # "" THEN (IF OcpNetworkName(oct) \in nets THEN "reuse" ELSE "create")
  ELSE IF net # "" THEN (IF net \in nets THEN "use" ELSE "create")
  ELSE "unhandled"
EnsureLibvirtNetworkBranch(oct, net, nets) ==
  IF oct # "" THEN (IF OcpNetworkName(oct) \in nets THEN "reuse" ELSE "create")
  ELSE IF net # "" THEN (IF net \in nets THEN "use" ELSE "missing")
  ELSE "unhandled"

\* EnsureLibvirtNetwork: the three branches on virNetOct and virNet
EnsureLibvirtNetwork ==
  /\ pc = "net_resolve"
  /\ LET branch == EnsureLibvirtNetworkBranch(virNetOct, virNet, networks)
         networkName == IF virNetOct # "" THEN OcpNetworkName(virNetOct)
                        ELSE virNet
     IN /\ log' = IF branch = "unhandled" THEN log
                  ELSE Append(log, NetCall("LookupNetworkByName", networkName,
                                           IF branch \in {"reuse", "use"} THEN ""
                                           ELSE "lookup"))
        /\ virNet' = IF branch = "reuse" THEN networkName ELSE virNet
        /\ CASE branch \in {"reuse", "use"} ->
                  pc' = "net_bridge" /\ UNCHANGED << aux, netRet, result >>
             [] branch = "create" ->
                  pc' = "net_define" /\ UNCHANGED << aux, netRet, result >>
             [] branch = "missing" ->
                  EnsureLibvirtNetworkReturns("", << >>, "lookup")
             [] branch = "unhandled" ->
                  EnsureLibvirtNetworkReturns("", << >>, "unhandled")
  /\ UNCHANGED << aux, netIdle, networks, netDesc >>

\* EnsureLibvirtNetwork: createNewLibvirtNetwork and its error check
EnsureLibvirtNetworkCreate ==
  /\ pc = "net_define"
  /\ \E failAt \in {"", "define", "autostart", "start"} :
       LET networkName == OcpNetworkName(virNetOct)
           c == createNewLibvirtNetwork(networks, netDesc, networkName,
                                        virNetOct, failAt)
       IN /\ networks' = c.nets
          /\ netDesc' = c.desc
          /\ log' = log \o c.calls
          /\ IF c.err # ""
             THEN EnsureLibvirtNetworkReturns("", << >>, c.err) /\ virNet' = virNet
             ELSE /\ virNet' = networkName
                  /\ pc' = "net_bridge"
                  /\ UNCHANGED << netRet, result >>
  /\ UNCHANGED << aux, netIdle >>

\* EnsureLibvirtNetwork: getLibvirtBridge(conn, virNet)
getLibvirtBridge ==
  /\ pc = "net_bridge"
  /\ LET found == virNet \in networks
         bridgeName == IF found THEN netDesc[virNet].def.bridge ELSE ""
         err == IF ~found THEN "lookup" ELSE IF bridgeName = "" THEN "bridge" ELSE ""
     IN /\ log' = Append(log, NetCall("GetBridgeName", virNet, err))
        /\ IF err # "" THEN EnsureLibvirtNetworkReturns("", << >>, err)
           ELSE /\ netRet' = [bridge |-> bridgeName, gateway |-> << >>, err |-> ""]
                /\ pc' = "net_gateway"
                /\ result' = result
  /\ UNCHANGED << aux, netIdle, networks, netDesc, virNet >>

\* EnsureLibvirtNetwork: getLibvirtNetworkGatewayIP(conn, virNet)
getLibvirtNetworkGatewayIP ==
  /\ pc = "net_gateway"
  /\ \E q \in QuoteChars :
       LET g == IF virNet \in networks
                THEN ParseGatewayIP(GetXMLDesc(netDesc[virNet].def, q))
                ELSE [ip |-> << >>, err |-> "lookup"]
       IN /\ log' = Append(log, NetCall("GetXMLDesc", virNet, g.err))
          /\ EnsureLibvirtNetworkReturns(netRet.bridge, g.ip, g.err)
  /\ UNCHANGED << aux, netIdle, networks, netDesc, virNet >>

\* ------------------------------------------------------ load-balancer track
\* ConfigureLBVM: fmt.Sprintf("/var/lib/libvirt/images/%s-lb.qcow2", clusterName)
LBImageDir == "/var/lib/libvirt/images"
lbDiskPath == << LBImageDir, VMNameRole("lb"), "qcow2" >>

\* createAndStartLBVM: vmParams, with params.VirNet = defLibvirtNet and
\* params.VMDiskPath = the path ConfigureLBVM returned
lbVMParams(net) == VMParams(VMNameRole("lb"), lbDiskPath, "", "", net)

\* CreateLBVM: waitForVMIP(conn, params.ClusterName) names the domain by the
\* bare cluster name (no role suffix; no role is named like the cluster)
VMNameCluster == << ClusterName >>

\* StartVM(conn, vmName): LookupDomainByName, then dom.Create(), which fails
\* on a domain that is running or that the hypervisor refuses to start
StartVM(doms, run, vmName, refused) ==
  IF vmName \notin doms THEN [err |-> "lookup", run |-> run]
  ELSE IF vmName \in run \/ refused THEN [err |-> "start", run |-> run]
  ELSE [err |-> "", run |-> run \cup {vmName}]

\* StopVM(conn, vmName): LookupDomainByName, then dom.Destroy(), which fails
\* on a domain that is not running or that the hypervisor refuses to stop; a
\* transient domain is gone once stopped, a persistent one stays, shut off
StopVM(doms, run, pers, vmName, refused) ==
  IF vmName \notin doms
  THEN [err |-> "lookup", doms |-> doms, run |-> run, pers |-> pers]
  ELSE IF vmName \notin run \/ refused
  THEN [err |-> "stop", doms |-> doms, run |-> run, pers |-> pers]
  ELSE [err |-> "",
        doms |-> IF vmName \in pers THEN doms ELSE doms \ {vmName},
        run |-> run \ {vmName}, pers |-> pers]

\* DestroyVM(conn, vmName): LookupDomainByName, then dom.Undefine(), which
\* fails on a transient domain or when the hypervisor refuses; a running
\* domain goes on running as a transient one, a shut off one is gone
DestroyVM(doms, run, pers, vmName, refused) ==
  IF vmName \notin doms
  THEN [err |-> "lookup", doms |-> doms, run |-> run, pers |-> pers]
  ELSE IF vmName \notin pers \/ refused
  THEN [err |-> "destroy", doms |-> doms, run |-> run, pers |-> pers]
  ELSE [err |-> "",
        doms |-> IF vmName \in run THEN doms ELSE doms \ {vmName},
        run |-> run, pers |-> pers \ {vmName}]

\* updateClusterDNS: os.OpenFile(path, O_APPEND|O_WRONLY) fails on a missing
\* file; f.WriteString(entry + "\n") adds the entry after the last byte
updateClusterDNS(file, ip, writeOk) ==
  LET entry == HostsEntry(ip, "lb api api-int")
      n == Len(file.lines)
  IN IF ~file.exists THEN [err |-> "open", file |-> file]
     ELSE IF ~writeOk THEN [err |-> "write", file |-> file]
     ELSE [err |-> "",
           file |-> [exists |-> TRUE,
                     lines |-> IF file.eol \/ n = 0
                               THEN Append(file.lines, << entry >>)
                               ELSE [file.lines EXCEPT ![n] = Append(@, entry)],
                     eol |-> TRUE]]

\* createLBCmd: `err = cluster.CreateLBVM(...)` is followed by `return nil`
createLBCmdResult(err) == "ok"

\* ---------------------------------------------------------- systemd wrapper
\* No test file exists
NoFiles == << >>

\* &systemd.Systemd{Name: name}: Status and IsEnabled hold their zero values
Systemd(name) == [Name |-> name, Status |-> "", IsEnabled |-> FALSE]

\* What a method of the wrapper leaves: the struct, the returned error and
\* the systemctl commands it issued
SystemdRet(s, err, cmds) == [s |-> s, err |-> err, cmds |-> cmds]

\* runCommand("systemctl", verb, s.Name) issued by a method, with outcome ok
systemctl(verb, s) == << verb, s.Name >>

\* No method has been called yet
NoSysCall == [op |-> "", before |-> Systemd(""), err |-> "", cmds |-> << >>]

\* (s *Systemd) Restart(): the command, `return err` on its failure, else
\* s.Status = StatusActive
Restart_cachesOnFailure(s, ok) ==
  SystemdRet([s EXCEPT !.Status = "active"], IF ok THEN "" ELSE "restart",
             << systemctl("restart", s) >>)
Restart(s, ok) ==
  IF ~ok THEN SystemdRet(s, "restart", << systemctl("restart", s) >>)
  ELSE SystemdRet([s EXCEPT !.Status = "active"], "",
                  << systemctl("restart", s) >>)

\* (s *Systemd) Start(): nothing to do when the cached Status is active;
\* else the command, `return err` on its failure, else s.Status = StatusActive
Start(s, ok) ==
  IF s.Status = "active" THEN SystemdRet(s, "", << >>)
  ELSE IF ~ok THEN SystemdRet(s, "start", << systemctl("start", s) >>)
  ELSE SystemdRet([s EXCEPT !.Status = "active"], "",
                  << systemctl("start", s) >>)

\* (s *Systemd) Stop(): nothing to do when the cached Status is inactive
Stop(s, ok) ==
  IF s.Status = "inactive" THEN SystemdRet(s, "", << >>)
  ELSE IF ~ok THEN SystemdRet(s, "stop", << systemctl("stop", s) >>)
  ELSE SystemdRet([s EXCEPT !.Status = "inactive"], "",
                  << systemctl("stop", s) >>)

\* (s *Systemd) Reload()
Reload(s, ok) ==
  IF ~ok THEN SystemdRet(s, "reload", << systemctl("reload", s) >>)
  ELSE SystemdRet([s EXCEPT !.Status = "active"], "",
                  << systemctl("reload", s) >>)

\* (s *Systemd) Enable(): nothing to do when IsEnabled is set
Enable(s, ok) ==
  IF s.IsEnabled THEN SystemdRet(s, "", << >>)
  ELSE IF ~ok THEN SystemdRet(s, "enable", << systemctl("enable", s) >>)
  ELSE SystemdRet([s EXCEPT !.IsEnabled = TRUE], "",
                  << systemctl("enable", s) >>)

\* (s *Systemd) Disable(): nothing to do when IsEnabled is not set
Disable(s, ok) ==
  IF ~s.IsEnabled THEN SystemdRet(s, "", << >>)
  ELSE IF ~ok THEN SystemdRet(s, "disable", << systemctl("disable", s) >>)
  ELSE SystemdRet([s EXCEPT !.IsEnabled = FALSE], "",
                  << systemctl("disable", s) >>)

\* What `systemctl is-active` and `systemctl is-enabled` print: the state
\* word and a newline
Output(word) == << word, "\n" >>
IsActiveWords == {"active", "reloading", "inactive", "failed"}
IsEnabledWords == {"enabled", "static", "disabled"}

\* runCommand returns an error when the command exits non-zero: is-active
\* exits 0 for an active or reloading unit, is-enabled for an enabled or
\* static one
ExitsZero(out) == out[1] \in {"active", "reloading", "enabled", "static"}

\* strings.TrimSpace
TrimSpace(out) == SelectSeq(out, LAMBDA c : c \notin {"\n", " ", "\t"})

\* (s *Systemd) CheckStatus(): is-active, `return err` on its failure, Status
\* from the trimmed output; is-enabled, `return err` on its failure,
\* IsEnabled from the trimmed output
CheckStatus(s, active, enabled) ==
  LET st == IF TrimSpace(active) = << "active" >> THEN "active"
            ELSE IF TrimSpace(active) = << "inactive" >> THEN "inactive"
            ELSE "failed"
      s1 == [s EXCEPT !.Status = st]
      both == << systemctl("is-active", s), systemctl("is-enabled", s) >>
  IN IF ~ExitsZero(active)
     THEN SystemdRet(s, "is-active", << systemctl("is-active", s) >>)
     ELSE IF ~ExitsZero(enabled) THEN SystemdRet(s1, "is-enabled", both)
     ELSE SystemdRet([s1 EXCEPT !.IsEnabled = (TrimSpace(enabled) = << "enabled" >>)],
                     "", both)

\* The DNS service the root command and create-lb hand to the dns package
dnsSvc == "NetworkManager"

\* dns.ReloadDNS(dnsConfig): restart of dnsConfig.DNSSvc, `return` on its
\* error, time.Sleep(5 * time.Second), restart of virtnetworkd; failAt names
\* the restart that fails. calls lists what was done, in order.
ReloadDNS_virtFirst(svcName, failAt) ==
  LET v == Restart(Systemd("virtnetworkd"), failAt # "virtnetworkd")
      d == Restart(Systemd(svcName), failAt # "dns")
  IN IF v.err # ""
     THEN [calls |-> << NetCall("Restart", "virtnetworkd", v.err) >>, err |-> v.err]
     ELSE [calls |-> << NetCall("Restart", "virtnetworkd", ""),
                        NetCall("Sleep", "", ""),
                        NetCall("Restart", svcName, d.err) >>,
           err |-> d.err]
ReloadDNS(svcName, failAt) ==
  LET d == Restart(Systemd(svcName), failAt # "dns")
      v == Restart(Systemd("virtnetworkd"), failAt # "virtnetworkd")
  IN IF d.err # ""
     THEN [calls |-> << NetCall("Restart", svcName, d.err) >>, err |-> d.err]
     ELSE [calls |-> << NetCall("Restart", svcName, ""),
                        NetCall("Sleep", "", ""),
                        NetCall("Restart", "virtnetworkd", v.err) >>,
           err |-> v.err]

\* CreateLBVM: the step that follows a step that returned nil
\* ("lb_start" is the last call of createAndStartLBVM)
CreateLBVMAfter_dnsBeforeReserve(step) ==
  CASE step = "lb_connect" -> "lb_create"
    [] step = "lb_start" -> "lb_wait"
    [] step = "lb_wait" -> "lb_dns"
    [] step = "lb_dns" -> "lb_reserve"
    [] step = "lb_reserve" -> "lb_reload"
    [] step = "lb_reload" -> "ssh_purge_ip"
CreateLBVMAfter(step) ==
  CASE step = "lb_connect" -> "lb_create"
    [] step = "lb_start" -> "lb_wait"
    [] step = "lb_wait" -> "lb_reserve"
    [] step = "lb_reserve" -> "lb_dns"
    [] step = "lb_dns" -> "lb_reload"
    [] step = "lb_reload" -> "ssh_purge_ip"

lbIdle == << prog, flags, netv, networks, hostsFile >>

\* createLBCmd: cluster.GenerateHAProxyConfig, and logging.Fatal on its error
createLBCmd ==
  /\ pc = "lb_haproxy"
  /\ \E ok \in BOOLEAN :
       IF ok THEN pc' = "lb_configure" /\ result' = result ELSE Fatal
  /\ UNCHANGED << aux, prog, sshv, flags, netv, hyp, log, hostsFile >>

\* createLBCmd: cluster.ConfigureLBVM, and `return err` on its error
ConfigureLBVM ==
  /\ pc = "lb_configure"
  /\ \E ok \in BOOLEAN :
       IF ok THEN pc' = "net_connect" /\ result' = result
       ELSE pc' = "exit" /\ result' = "err"
  /\ UNCHANGED << aux, prog, sshv, flags, netv, hyp, log, hostsFile >>

\* CreateLBVM(params, dnsDir, dnsSvc, gatewayIP): libvirt.NewLibvirtConnection
CreateLBVM ==
  /\ pc = "lb_connect"
  /\ \E res \in {"", "connect"} :
       /\ log' = log \o << NetCall("CreateLBVM", defLibvirtNet, ""),
                           NetCall("NewLibvirtConnection", "", res) >>
       /\ IF res # "" THEN ReturnErr
          ELSE pc' = CreateLBVMAfter("lb_connect") /\ result' = result
  /\ UNCHANGED << aux, prog, sshv, flags, netv, hyp, hostsFile >>

\* createAndStartLBVM: libvirt.CreateVM(conn, vmParams)
createAndStartLBVM ==
  /\ pc = "lb_create"
  /\ \E refused \in BOOLEAN :
       LET vmp == lbVMParams(defLibvirtNet)
           c == CreateVM(domains, vmp.Name, refused)
       IN /\ DomainCreateXML(c, vmp)
          /\ log' = Append(log, Call("CreateVM", NoNode, vmp.Name, vmp.Network,
                                     "", "", c.err))
          /\ IF c.err # "" THEN ReturnErr ELSE pc' = "lb_start" /\ result' = result
  /\ UNCHANGED << aux, lbIdle, sshv, reservations >>

\* createAndStartLBVM: libvirt.StartVM(conn, vmParams.Name)
createAndStartLBVMStart ==
  /\ pc = "lb_start"
  /\ \E refused \in BOOLEAN :
       LET name == lbVMParams(defLibvirtNet).Name
           st == StartVM(domains, running, name, refused)
       IN /\ running' = st.run
          /\ log' = Append(log, Call("StartVM", NoNode, name, "", "", "", st.err))
          /\ IF st.err # "" THEN ReturnErr
             ELSE pc' = CreateLBVMAfter("lb_start") /\ result' = result
  /\ UNCHANGED << aux, lbIdle, sshv, domains, domainXML, submitted, reservations >>

\* The host between DomainCreateXML and the start request (no function of
\* the program): the guest of the new domain powers off. A transient domain
\* disappears with it; the domain stays, shut off, when another tool has
\* defined it persistently in the meantime.
GuestShutsOff ==
  /\ pc = "lb_start"
  /\ VMNameRole("lb") \in running
  /\ running' = running \ {VMNameRole("lb")}
  /\ \E kept \in BOOLEAN :
       IF kept
       THEN /\ persistent' = persistent \cup {VMNameRole("lb")}
            /\ UNCHANGED << domains, domainXML >>
       ELSE /\ domains' = domains \ {VMNameRole("lb")}
            /\ domainXML' = [n \in DOMAIN domainXML \ {VMNameRole("lb")} |->
                               domainXML[n]]
            /\ persistent' = persistent \ {VMNameRole("lb")}
  /\ UNCHANGED << dnsFiles, sysv, lbIdle, sshv, submitted, reservations, pc,
                  result, log >>

\* CreateLBVM: lbIP, lbMAC, err := waitForVMIP(conn, params.ClusterName), and
\* `return err` on its error
CreateLBVMWaitForVMIP ==
  /\ pc = "lb_wait"
  /\ \E ifacesErr \in BOOLEAN :
       \E ifaces \in (IF ifacesErr THEN {<< >>} ELSE IfaceLists) :
         LET vmName == VMNameCluster
             g == GetVMIP(vmName \in domains, ifacesErr, ifaces)
             ret == waitForVMIPRet(g)
             res == IF g.err # "" THEN g.err
                    ELSE IF g.ip = "" \/ g.mac = "" THEN "none" ELSE "lease"
         IN /\ slept' = slept + LeaseDelay
            /\ leaseSrc' = IF g.err = "" THEN ifaces ELSE << >>
            /\ waitRet' = ret
            /\ log' = Append(log, Call("waitForVMIP", VMNameRole("lb"), vmName, "",
                                       ret.mac, ret.ip, res))
            /\ IF ret.err # "" THEN ReturnErr
               ELSE pc' = CreateLBVMAfter("lb_wait") /\ result' = result
  /\ UNCHANGED << aux, params, role, i, sshv, flags, netv, hyp, hostsFile >>

\* CreateLBVM: libvirt.AddDHCPReservation(conn, params.VirNet, lbMAC, lbIP)
CreateLBVMReserve ==
  /\ pc = "lb_reserve"
  /\ \E updateOk \in BOOLEAN :
       LET a == AddDHCPReservation(networks, reservations, defLibvirtNet,
                                   waitRet.mac, waitRet.ip, updateOk)
       IN /\ reservations' = a.resv
          /\ log' = Append(log, Call("AddDHCPReservation", VMNameRole("lb"),
                                     VMNameRole("lb"), defLibvirtNet,
                                     waitRet.mac, waitRet.ip, a.err))
          /\ IF a.err # "" THEN ReturnErr
             ELSE pc' = CreateLBVMAfter("lb_reserve") /\ result' = result
  /\ UNCHANGED << aux, lbIdle, sshv, domains, domainXML, running, submitted >>

\* CreateLBVM: updateClusterDNS(lbIP, params.ClusterName, params.BaseDomain)
CreateLBVMUpdateClusterDNS ==
  /\ pc = "lb_dns"
  /\ \E writeOk \in BOOLEAN :
       LET u == updateClusterDNS(hostsFile, waitRet.ip, writeOk)
       IN /\ hostsFile' = u.file
          /\ log' = Append(log, Call("updateClusterDNS", VMNameRole("lb"),
                                     VMNameRole("lb"), "", "", waitRet.ip, u.err))
          /\ IF u.err # "" THEN ReturnErr
             ELSE pc' = CreateLBVMAfter("lb_dns") /\ result' = result
  /\ UNCHANGED << aux, prog, sshv, flags, netv, hyp >>

\* CreateLBVM: dns.ReloadDNS(dns.DNSConfig{..., DNSSvc: dnsSvc, ...});
\* on success CreateLBVM calls WaitForSSHAccess(lbIP, "lb.<c>.<d>", _, "root")
CreateLBVMReloadDNS ==
  /\ pc = "lb_reload"
  /\ \E failAt \in {"", "dns", "virtnetworkd"} :
       /\ log' = log \o ReloadDNS(dnsSvc, failAt).calls
       /\ IF ReloadDNS(dnsSvc, failAt).err # ""
          THEN ReturnErr /\ UNCHANGED << aux, sshIP, sshHost, sshUser >>
          ELSE /\ pc' = CreateLBVMAfter("lb_reload")
               /\ result' = result
               /\ sshIP' = waitRet.ip
               /\ sshHost' = SSHHost("lb")
               /\ sshUser' = "root"
  /\ UNCHANGED << aux, prog, sshAttempts, sshUp, flags, netv, hyp, hostsFile >>

\* createLBCmd: CreateLBVM has returned; the command returns
createLBCmdReturn ==
  /\ pc = "lb_return"
  /\ lbErr' = IF result = "err" THEN "err" ELSE "nil"
  /\ result' = createLBCmdResult(lbErr')
  /\ pc' = "exit"
  /\ UNCHANGED << aux, prog, sshv, cmd, virNetOct, defLibvirtNet, netv, hyp, log,
                  hostsFile >>

\* ------------------------------------------------------- start of a command
\* The --dns-dir flag, at its default
dnsDir == "/etc/NetworkManager/dnsmasq.d"

\* init() of the command package runs before the flags are parsed, so its
\* checks see the defaults: of these only os.Stat(pullSecFile) on
\* /root/pull-secret depends on the host; logging.Fatal when it fails
rootCmdInit ==
  /\ pc = "init"
  /\ \E pullSecret \in BOOLEAN :
       IF pullSecret
       THEN /\ pc' = CASE cmd = "root" -> "root_args"
                        [] cmd = "create-lb" -> "lb_haproxy"
                        [] cmd = "download" -> "dl_check"
            /\ result' = result
       ELSE Fatal
  /\ UNCHANGED << aux, prog, sshv, flags, netv, hyp, log, hostsFile >>

\* rootCmd.Run: without positional arguments cmd.Help() and return;
\* checkIfRoot, which ends the process with os.Exit(1) for another user;
\* filepath.Abs(vmDir) and logging.Fatal on its error
rootCmdRunArgs ==
  /\ pc = "root_args"
  /\ \E args \in BOOLEAN, isRoot \in BOOLEAN, absOk \in BOOLEAN :
       IF ~args THEN pc' = "exit" /\ result' = "ok"
       ELSE IF ~isRoot \/ ~absOk THEN Fatal
       ELSE pc' = "root_flags" /\ result' = result
  /\ UNCHANGED << aux, prog, sshv, flags, netv, hyp, log, hostsFile >>

\* -------------------------------------------------------- pre-flight checks
\* utils.CheckDependencies: checkExecutables, checkLibvirtNetworkDriver,
\* checkSetupDirectory, checkFile, checkVirtDaemons, checkExistingVMs,
\* checkDNSService, checkConflictingDNSRecords, in this order; each ends the
\* process through logging.Fatal when it fails

\* checkVirtDaemons: the drivers whose daemon virt<drv>d is checked
virtDrivers ==
  << "qemu", "interface", "network", "nodedev", "nwfilter", "secret", "storage" >>

\* nameContainsCluster(name, clusterName)
nameContainsCluster(name) ==
  name \in {VMNameCluster, VMNameRole("bootstrap"), VMNameRole("master")}

\* GetVMsByName(conn, clusterName): ListAllDomains(PERSISTENT), then for each
\* domain GetName and Free; failAt names the call that fails ("name" and
\* "free" need a domain to fail on)
GetVMsByName(pers, failAt) ==
  IF failAt = "list" \/ (failAt # "" /\ pers # {})
  THEN [vms |-> {}, err |-> failAt]
  ELSE [vms |-> { n \in pers : nameContainsCluster(n) }, err |-> ""]

\* determineDNSSvc(dnsDir)
determineDNSSvc(dir) ==
  IF dir = "/etc/NetworkManager/dnsmasq.d" THEN "NetworkManager" ELSE "dnsmasq"

\* reloadDNSService(dnsSvc): Reload for NetworkManager and Restart otherwise,
\* either one on systemd.Systemd{Name: "NetworkManager"}
reloadDNSService(svcName, ok) ==
  IF svcName = "NetworkManager"
  THEN [op |-> "Reload", r |-> Reload(Systemd("NetworkManager"), ok)]
  ELSE [op |-> "Restart", r |-> Restart(Systemd("NetworkManager"), ok)]

\* A function holds the struct before, has called op on it and got r
SystemdHeld(op, before, r) ==
  /\ svc' = r.s
  /\ sysCall' = [op |-> op, before |-> before, err |-> r.err, cmds |-> r.cmds]
  /\ sysLast' = IF op \in {"Start", "Stop", "Restart", "Reload"} /\ r.err = ""
                THEN op ELSE ""

\* checkExecutables: exec.LookPath of virsh, virt-install, virt-customize,
\* systemctl, dig and wget. checkLibvirtNetworkDriver follows: filepath.Glob
\* fails on a malformed pattern only, which "/usr/**/<driver>" is not
checkExecutables ==
  /\ pc = "dep_exec"
  /\ \E found \in BOOLEAN :
       IF found THEN pc' = "dep_setupdir" /\ result' = result
       ELSE Fatal
  /\ UNCHANGED << prog, sshv, flags, netv, hyp, hostsFile, aux, log >>

\* checkSetupDirectory: logging.Fatal when os.Stat(setupDir) succeeds
checkSetupDirectory ==
  /\ pc = "dep_setupdir"
  /\ \E exists \in BOOLEAN :
       IF exists THEN Fatal
       ELSE pc' = "dep_file" /\ result' = result
  /\ UNCHANGED << prog, sshv, flags, netv, hyp, hostsFile, aux, log >>

\* checkFile: os.Stat and os.ReadFile of the pull secret, logging.Fatal when
\* one fails. string(content[:50]) slices within the capacity of the buffer
\* of os.ReadFile (512 bytes at least), so a file shorter than 50 bytes
\* passes like any other
checkFile ==
  /\ pc = "dep_file"
  /\ \E file \in {"ok", "short", "missing", "unreadable"} :
       IF file \in {"ok", "short"}
       THEN pc' = "dep_virtd" /\ result' = result
       ELSE Fatal
  /\ UNCHANGED << prog, sshv, flags, netv, hyp, hostsFile, aux, log >>

\* checkVirtDaemons, one round of its loop: CheckStatus on a new struct for
\* virt<drv>d, logging.Fatal on its error; Start when the Status it cached is
\* not active, logging.Fatal on its error
checkVirtDaemons ==
  /\ pc = "dep_virtd"
  /\ \E a \in IsActiveWords, e \in IsEnabledWords, ok \in BOOLEAN :
       LET service == Systemd("virt" \o virtDrivers[i] \o "d")
           c == CheckStatus(service, Output(a), Output(e))
           st == Start(c.s, ok)
           err == IF c.err # "" THEN c.err
                  ELSE IF c.s.Status # "active" THEN st.err ELSE ""
       IN /\ IF c.err = "" /\ c.s.Status # "active"
             THEN SystemdHeld("Start", c.s, st)
             ELSE SystemdHeld("CheckStatus", service, c)
          /\ IF err # "" THEN Fatal /\ i' = i
             ELSE IF i = Len(virtDrivers)
             THEN /\ pc' = "dep_vms"
                  /\ i' = 1
                  /\ result' = result
             ELSE i' = i + 1 /\ UNCHANGED << pc, result >>
  /\ UNCHANGED << params, role, waitRet, leaseSrc, slept, sshv, flags, netv,
                  hyp, hostsFile, dnsFiles, persistent, log >>

\* checkExistingVMs: NewLibvirtConnection, GetVMsByName, logging.Fatal on an
\* error of either and when a VM was found
checkExistingVMs ==
  /\ pc = "dep_vms"
  /\ \E res \in {"", "connect"}, failAt \in {"", "list", "name", "free"} :
       LET g == GetVMsByName(persistent, failAt)
       IN /\ log' = log \o
               (IF res # "" THEN << NetCall("NewLibvirtConnection", "", res) >>
                ELSE << NetCall("NewLibvirtConnection", "", ""),
                        NetCall("GetVMsByName", "",
                                IF g.err # "" THEN g.err
                                ELSE IF g.vms # {} THEN "found" ELSE "") >>)
          /\ IF res # "" \/ g.err # "" \/ g.vms # {} THEN Fatal
             ELSE pc' = "dep_dns" /\ result' = result
  /\ UNCHANGED << prog, sshv, flags, netv, hyp, hostsFile, aux >>

\* checkDNSService: logging.Fatal when neither /etc/NetworkManager/dnsmasq.d
\* nor /etc/dnsmasq.d exists; reloadDNSService(determineDNSSvc(dnsDir)) and
\* logging.Fatal on its error. checkNetworkManagerDnsmasq follows: its walk
\* function returns nil for every path, so it returns nil
checkDNSService ==
  /\ pc = "dep_dns"
  /\ \E dirs \in BOOLEAN, ok \in BOOLEAN :
       IF ~dirs THEN Fatal /\ UNCHANGED sysv
       ELSE LET d == reloadDNSService(determineDNSSvc(dnsDir), ok)
            IN /\ SystemdHeld(d.op, Systemd("NetworkManager"), d.r)
               /\ IF d.r.err # "" THEN Fatal
                  ELSE /\ pc' = "dep_records"
                       /\ result' = result
  /\ UNCHANGED << prog, sshv, flags, netv, hyp, hostsFile, dnsFiles, persistent,
                  log >>

\* checkConflictingDNSRecords: dig of every cluster host name at 127.0.0.1,
\* logging.Fatal when dig fails or answers; grep of /etc/hosts, logging.Fatal
\* when it holds <cluster>.<domain>
checkConflictingDNSRecords ==
  /\ pc = "dep_records"
  /\ \E conflict \in {"", "dig", "record", "hosts"} :
       IF conflict = ""
       THEN pc' = "net_connect" /\ result' = result
       ELSE Fatal
  /\ UNCHANGED << prog, sshv, flags, netv, hyp, hostsFile, aux, log >>

\* ---------------------------------------------------------------- DNS check
\* The files TestDNS writes: /etc/hosts.dnstest and
\* filepath.Join(dnsDir, "dnstest.conf"), dnsDir being the --dns-dir flag
HostsTestPath == "/etc/hosts.dnstest"
ConfTestPath == dnsDir \o "/dnstest.conf"

\* os.WriteFile(path, content, 0o644): creates or truncates the file; on an
\* error (directory missing, no permission) the file system is as before
WriteFile(files, path, content, ok) ==
  IF ok THEN [files |-> (path :> content) @@ files, err |-> ""]
  ELSE [files |-> files, err |-> "write"]

\* os.Remove(path): fails on a missing file or when the unlink is refused
Remove(files, path, ok) ==
  IF path \in DOMAIN files /\ ok
  THEN [files |-> [q \in DOMAIN files \ {path} |-> files[q]], err |-> ""]
  ELSE [files |-> files, err |-> "remove"]

\* createTestHostsFile(baseDomain)
createTestHostsFile(files, baseDomain, ok) ==
  WriteFile(files, HostsTestPath, << "1.2.3.4 xxxtestxxx." \o baseDomain >>, ok)

\* createDNSConfigFile(config)
createDNSConfigFile(files, ok) ==
  WriteFile(files, ConfTestPath,
            << "",
               "local=/" \o ClusterName \o "." \o BaseDomain \o "/",
               "addn-hosts=/etc/hosts.dnstest",
               "address=/test-wild-card." \o ClusterName \o "." \o BaseDomain
                 \o "/5.6.7.8" >>,
            ok)

\* runDNSTests: for each of the two dig targets (the gateway, then none) the
\* forward, the reverse and the wildcard lookup; the first lookup that fails
\* ends the function. failAt is the position of that lookup, 0 for none.
DNSLookups ==
  << << "LookupHost", "@gateway", "xxxtestxxx" >>,
     << "LookupAddr", "@gateway", "1.2.3.4" >>,
     << "LookupHost", "@gateway", "blah.test-wild-card" >>,
     << "LookupHost", "", "xxxtestxxx" >>,
     << "LookupAddr", "", "1.2.3.4" >>,
     << "LookupHost", "", "blah.test-wild-card" >> >>

runDNSTests(failAt) ==
  LET n == IF failAt = 0 THEN Len(DNSLookups) ELSE failAt
  IN [calls |-> [k \in 1..n |->
                   Call(DNSLookups[k][1], NoNode, << >>, DNSLookups[k][2], "",
                        DNSLookups[k][3], IF k = failAt THEN "lookup" ELSE "")],
      err |-> IF failAt = 0 THEN "" ELSE "lookup"]

\* Cleanup(dnsDir): os.Remove of both files (a failure is only logged), then
\* ReloadDNS(DNSConfig{DNSSvc: "dnsmasq"}), whose error is returned
Cleanup(files, rmHosts, rmConf, failAt) ==
  LET h == Remove(files, HostsTestPath, rmHosts)
      c == Remove(h.files, ConfTestPath, rmConf)
      r == ReloadDNS("dnsmasq", failAt)
  IN [files |-> c.files,
      calls |-> << NetCall("Remove", HostsTestPath, h.err),
                   NetCall("Remove", ConfTestPath, c.err) >> \o r.calls,
      err |-> r.err]

\* rootCmd.Run: `if err != nil { log.Fatalf("Failed to run DNS checks") }`,
\* and the end of Run after a DNS check that returned nil
TestDNSReturns(err) ==
  IF err # "" THEN Fatal ELSE pc' = "exit" /\ result' = "ok"

dnsIdle == << prog, sshv, flags, netv, hyp, hostsFile, sysv, persistent >>

\* TestDNS(config): checkFirstNameserver, and `return` on its error
TestDNS ==
  /\ pc = "root_testdns"
  /\ \E local \in BOOLEAN :
       /\ log' = log \o << NetCall("TestDNS", "", ""),
                           NetCall("checkFirstNameserver", "",
                                   IF local THEN "" ELSE "nameserver") >>
       /\ IF local THEN pc' = "dns_hosts" /\ result' = result
          ELSE TestDNSReturns("nameserver")
  /\ UNCHANGED << dnsIdle, dnsFiles >>

\* TestDNS: createTestHostsFile(config.BaseDomain), and `return` on its error
TestDNSCreateTestHostsFile ==
  /\ pc = "dns_hosts"
  /\ \E ok \in BOOLEAN :
       LET w == createTestHostsFile(dnsFiles, BaseDomain, ok)
       IN /\ dnsFiles' = w.files
          /\ log' = Append(log, NetCall("WriteFile", HostsTestPath, w.err))
          /\ IF w.err = "" THEN pc' = "dns_conf" /\ result' = result
             ELSE TestDNSReturns(w.err)
  /\ UNCHANGED dnsIdle

\* TestDNS: createDNSConfigFile(config), and `return` on its error
TestDNSCreateDNSConfigFile ==
  /\ pc = "dns_conf"
  /\ \E ok \in BOOLEAN :
       LET w == createDNSConfigFile(dnsFiles, ok)
       IN /\ dnsFiles' = w.files
          /\ log' = Append(log, NetCall("WriteFile", ConfTestPath, w.err))
          /\ IF w.err = "" THEN pc' = "dns_reload" /\ result' = result
             ELSE TestDNSReturns(w.err)
  /\ UNCHANGED dnsIdle

\* TestDNS: ReloadDNS(config), and `return` on its error
TestDNSReloadDNS ==
  /\ pc = "dns_reload"
  /\ \E failAt \in {"", "dns", "virtnetworkd"} :
       LET r == ReloadDNS(dnsSvc, failAt)
       IN /\ log' = log \o r.calls
          /\ IF r.err = "" THEN pc' = "dns_tests" /\ result' = result
             ELSE TestDNSReturns(r.err)
  /\ UNCHANGED << dnsIdle, dnsFiles >>

\* TestDNS: runDNSTests(config), and `return` on its error
TestDNSRunDNSTests ==
  /\ pc = "dns_tests"
  /\ \E failAt \in 0..Len(DNSLookups) :
       LET t == runDNSTests(failAt)
       IN /\ log' = log \o t.calls
          /\ IF t.err = "" THEN pc' = "dns_cleanup" /\ result' = result
             ELSE TestDNSReturns(t.err)
  /\ UNCHANGED << dnsIdle, dnsFiles >>

\* TestDNS: Cleanup(config.DNSDir), `return` on its error, else `return nil`
TestDNSCleanup ==
  /\ pc = "dns_cleanup"
  /\ \E rmHosts \in BOOLEAN, rmConf \in BOOLEAN,
        failAt \in {"", "dns", "virtnetworkd"} :
       LET c == Cleanup(dnsFiles, rmHosts, rmConf, failAt)
       IN /\ dnsFiles' = c.files
          /\ log' = log \o c.calls
          /\ TestDNSReturns(c.err)
  /\ UNCHANGED dnsIdle

\* ------------------------------------------------- callers of the wrapper
\* A method of the wrapper has been called on svc and has returned r
SystemdCall(op, r) ==
  /\ pc = "systemd"
  /\ svc' = r.s
  /\ sysCall' = [op |-> op, before |-> svc, err |-> r.err, cmds |-> r.cmds]
  /\ sysLast' = IF op \in {"Start", "Stop", "Restart", "Reload"} /\ r.err = ""
                THEN op
                ELSE IF op = "CheckStatus" /\ r.s # svc THEN ""
                ELSE sysLast
  /\ UNCHANGED << prog, sshv, flags, netv, hyp, hostsFile, dnsFiles, persistent,
                  pc, result, log >>

SystemdCheckStatus ==
  \E a \in IsActiveWords, e \in IsEnabledWords :
    SystemdCall("CheckStatus", CheckStatus(svc, Output(a), Output(e)))
SystemdStart == \E ok \in BOOLEAN : SystemdCall("Start", Start(svc, ok))
SystemdStop == \E ok \in BOOLEAN : SystemdCall("Stop", Stop(svc, ok))
SystemdRestart == \E ok \in BOOLEAN : SystemdCall("Restart", Restart(svc, ok))
SystemdReload == \E ok \in BOOLEAN : SystemdCall("Reload", Reload(svc, ok))
SystemdEnable == \E ok \in BOOLEAN : SystemdCall("Enable", Enable(svc, ok))
SystemdDisable == \E ok \in BOOLEAN : SystemdCall("Disable", Disable(svc, ok))

\* ---------------------------------------------------------- specification
\* A line that create-lb's updateClusterDNS may have left in the file
LBLine == << HostsEntry("192.168.7.10", "lb api api-int") >>

\* The hypervisor and the file system are shared with other tools, so the run
\* starts from any of these: domains that exist before the run (one under the
\* name the addressing stage queries for the bootstrap node, one under a name
\* the run is about to create), networks under the cluster's network name or
\* under a name that reads like an address, and a host-mapping file that is
\* absent or holds the load balancer's line.
StrayDomains == { VMNameRoleIdx("bootstrap", 1), VMNameRoleIdx("master", 1) }

\* The definition of a domain that exists before the run
StrayDomainXML(n) == [name |-> n, disk |-> << "", n, "img" >>, network |-> "default"]

\* The object of a network that exists before the run: bridge "" is a
\* network without a bridge device, address "" one without an <ip> element
StrayNetwork(n, bridge, address, active) ==
  Network([name |-> n, bridge |-> bridge, address |-> address,
           netmask |-> "255.255.255.0", rangeStart |-> "", rangeEnd |-> ""],
          TRUE, active)

NoNetRet == [bridge |-> "", gateway |-> << >>, err |-> ""]

Init ==
  /\ params \in [NMaster : 0..MaxMasters, NWorker : 0..MaxWorkers,
                  VirNet : {VirNet}, VMDir : {LBImageDir}]
  /\ pc = "connect"
  /\ role = 1
  /\ i = 1
  /\ waitRet = [ip |-> "", mac |-> "", err |-> ""]
  /\ leaseSrc = << >>
  /\ slept = 0
  /\ sshIP = ""
  /\ sshHost = ""
  /\ sshUser = ""
  /\ sshAttempts = 0
  /\ sshUp = FALSE
  /\ result = "running"
  /\ log = << >>
  /\ domains \in SUBSET StrayDomains
  /\ networks \in SUBSET ({VirNet} \cup IPv4Addrs)
  /\ reservations = {}
  /\ hostsFile \in {NoFile, [exists |-> TRUE, lines |-> << LBLine >>, eol |-> TRUE]}
  /\ cmd = "root"
  /\ virNetOct = ""
  /\ defLibvirtNet = VirNet
  /\ virNet = ""
  /\ netRet = NoNetRet
  /\ netDesc = [n \in networks |-> StrayNetwork(n, "virbr1", "192.168.7.1", TRUE)]
  /\ domainXML = [n \in domains |-> StrayDomainXML(n)]
  /\ running = {}
  /\ submitted = << >>
  /\ lbErr = ""
  /\ dnsFiles = NoFiles
  /\ svc = Systemd(dnsSvc)
  /\ sysCall = NoSysCall
  /\ sysLast = ""
  /\ persistent = domains

Next ==
  \/ NewLibvirtConnection
  \/ createBootstrapNode
  \/ createMasterNodes
  \/ createWorkerNodes
  \/ waitForVMIPs
  \/ waitForVMIP
  \/ waitForVMIPsReserve
  \/ waitForVMIPsPublish
  \/ CreateNodesGetVMIP
  \/ removeOldHostKeyIP
  \/ removeOldHostKeyHost
  \/ WaitForSSHAccess
  \/ GuestSSHUp

Spec == Init /\ [][Next]_vars

\* The (host, sshUser) arguments of the two calls of WaitForSSHAccess:
\* CreateNodes for the bootstrap node, CreateLBVM for the load balancer
SSHCallSites == { [host |-> SSHHost("bootstrap"), user |-> "core"],
                  [host |-> SSHHost("lb"), user |-> "root"] }

\* WaitForSSHAccess on its own: the arguments are drawn from the values its
\* call sites pass (an address or "", user "core" or "root"), and the guest
\* may already be reachable
InitSSH ==
  /\ params = [NMaster |-> 0, NWorker |-> 0, VirNet |-> VirNet,
               VMDir |-> LBImageDir]
  /\ pc = "ssh_purge_ip"
  /\ role = 1
  /\ i = 1
  /\ waitRet = [ip |-> "", mac |-> "", err |-> ""]
  /\ leaseSrc = << >>
  /\ slept = 0
  /\ sshIP \in IPv4Addrs \cup {""}
  /\ \E site \in SSHCallSites : sshHost = site.host /\ sshUser = site.user
  /\ sshAttempts = 0
  /\ sshUp \in BOOLEAN
  /\ result = "running"
  /\ log = << >>
  /\ domains = {}
  /\ networks = {VirNet}
  /\ reservations = {}
  /\ hostsFile = NoFile
  /\ cmd = "root"
  /\ virNetOct = ""
  /\ defLibvirtNet = VirNet
  /\ virNet = ""
  /\ netRet = NoNetRet
  /\ netDesc = [n \in networks |-> StrayNetwork(n, "virbr1", "192.168.7.1", TRUE)]
  /\ domainXML = << >>
  /\ running = {}
  /\ submitted = << >>
  /\ lbErr = ""
  /\ dnsFiles = NoFiles
  /\ svc = Systemd(dnsSvc)
  /\ sysCall = NoSysCall
  /\ sysLast = ""
  /\ persistent = domains

NextSSH ==
  \/ removeOldHostKeyIP
  \/ removeOldHostKeyHost
  \/ WaitForSSHAccess
  \/ GuestSSHUp

\* The loop keeps running: the sleep ends and the ssh command returns
SSHSpec == InitSSH /\ [][NextSSH]_vars /\ WF_vars(WaitForSSHAccess)

\* The two commands that resolve the network: the root command up to the
\* error check on EnsureLibvirtNetwork, and create-lb to its end. The flags
\* take any of their values; before the run the hypervisor may hold the
\* network "default", a network under the name the octet formats to, a domain
\* under the bare cluster name and one under the load balancer's name; the
\* host-mapping file may be missing, empty, or end without a newline.
StrayNetworks(n) ==
  IF n = "default"
  THEN { StrayNetwork(n, "virbr0", "192.168.122.1", TRUE),
         StrayNetwork(n, "virbr0", "", TRUE) }
  ELSE { StrayNetwork(n, "virbr1", "192.168.100.1", TRUE),
         StrayNetwork(n, "virbr1", "192.168.100.1", FALSE),
         StrayNetwork(n, "", "192.168.100.1", TRUE) }

\* --------------------------------------------------------- download command
\* touchFile(filePath): os.Create makes the file or truncates the one there
touchFile(file, ok) ==
  IF ok THEN [file |-> [exists |-> TRUE, lines |-> << >>, eol |-> TRUE],
              err |-> ""]
  ELSE [file |-> file, err |-> "create"]

\* CreateHostsAndDNSConfig(clusterName, dnsDir): touchFile on
\* /etc/hosts.<cluster>, then writeFile of the addn-hosts line to
\* <dnsDir>/<cluster>.conf; the first error is returned
CreateHostsAndDNSConfig(file, files, touchOk, writeOk) ==
  LET t == touchFile(file, touchOk)
      w == WriteFile(files, dnsDir \o "/" \o ClusterName \o ".conf",
                     << "addn-hosts=/etc/hosts." \o ClusterName >>, writeOk)
  IN IF t.err # ""
     THEN [file |-> t.file, files |-> files,
           err |-> "failed to create hosts file"]
     ELSE [file |-> t.file, files |-> w.files,
           err |-> IF w.err # "" THEN "failed to create dnsmasq config file"
                   ELSE ""]

\* downloadCmd.RunE: utils.Check ends the process through logging.Fatal when
\* a version or URL check fails and through os.Exit(1) when the user answers
\* "n"; utils.CreateDirectory(setupDir), whose error is returned
downloadCmd ==
  /\ pc = "dl_check"
  /\ \E check \in BOOLEAN, dir \in BOOLEAN :
       IF ~check THEN Fatal
       ELSE IF ~dir THEN pc' = "exit" /\ result' = "err"
       ELSE pc' = "dl_hosts" /\ result' = result
  /\ UNCHANGED << prog, sshv, flags, netv, hyp, hostsFile, aux, log >>

\* downloadCmd.RunE: utils.CreateHostsAndDNSConfig(clusterName, dnsDir),
\* whose error is returned
downloadCmdCreateHostsAndDNSConfig ==
  /\ pc = "dl_hosts"
  /\ \E touchOk \in BOOLEAN, writeOk \in BOOLEAN :
       LET c == CreateHostsAndDNSConfig(hostsFile, dnsFiles, touchOk, writeOk)
       IN /\ hostsFile' = c.file
          /\ dnsFiles' = c.files
          /\ IF c.err # "" THEN pc' = "exit" /\ result' = "err"
             ELSE pc' = "dl_fetch" /\ result' = result
  /\ UNCHANGED << prog, sshv, flags, netv, hyp, sysv, persistent, log >>

\* downloadCmd.RunE: HandleSSHKey (always nil); OpenShiftTools, whose
\* error (a failed extraction) is returned and whose downloads end the
\* process through logging.Fatal on an unreachable URL; DownloadRHCOSFiles,
\* whose first download gets cfg.ImageURL, a field utils.Check never
\* assigns: download ends the process through logging.Fatal on the empty
\* URL, so PrepareRHCOSInstall and `return nil` are never reached
downloadCmdFetch ==
  /\ pc = "dl_fetch"
  /\ \E failAt \in {"", "fatal", "tools"} :
       IF failAt = "tools" THEN pc' = "exit" /\ result' = "err" ELSE Fatal
  /\ UNCHANGED << prog, sshv, flags, netv, hyp, hostsFile, aux, log >>

InitCmd ==
  /\ params = [NMaster |-> 0, NWorker |-> 0, VirNet |-> VirNet,
               VMDir |-> LBImageDir]
  /\ cmd \in {"root", "create-lb", "download"}
  /\ pc = "init"
  /\ virNetOct \in Octets
  /\ defLibvirtNet \in NetNames
  /\ role = 1
  /\ i = 1
  /\ waitRet = [ip |-> "", mac |-> "", err |-> ""]
  /\ leaseSrc = << >>
  /\ slept = 0
  /\ sshIP = ""
  /\ sshHost = ""
  /\ sshUser = ""
  /\ sshAttempts = 0
  /\ sshUp = FALSE
  /\ result = "running"
  /\ log = << >>
  /\ networks \in SUBSET {"default", OcpNetworkName("100")}
  /\ netDesc \in [networks -> UNION {StrayNetworks(n) : n \in networks}]
  /\ \A n \in networks : netDesc[n] \in StrayNetworks(n)
  /\ domains \in (CASE cmd = "root" -> SUBSET {VMNameRole("bootstrap")}
                    [] cmd = "create-lb" ->
                         SUBSET {VMNameCluster, VMNameRole("lb")}
                    [] cmd = "download" -> {{}})
  /\ domainXML = [n \in domains |-> StrayDomainXML(n)]
  /\ running = {}
  /\ submitted = << >>
  /\ reservations = {}
  /\ hostsFile \in (IF cmd = "root" THEN {NoFile}
                    ELSE {NoFile,
                          [exists |-> TRUE, lines |-> << >>, eol |-> TRUE],
                          updateHostDNS(NoFile, "192.168.7.11",
                                        VMNameRoleIdx("master", 1))})
  /\ virNet = ""
  /\ netRet = NoNetRet
  /\ lbErr = ""
  /\ dnsFiles = NoFiles
  /\ svc = Systemd(dnsSvc)
  /\ sysCall = NoSysCall
  /\ sysLast = ""
  /\ persistent = domains

NextCmd ==
  \/ rootCmdInit
  \/ rootCmdRunArgs
  \/ rootCmdRun
  \/ checkExecutables
  \/ checkSetupDirectory
  \/ checkFile
  \/ checkVirtDaemons
  \/ checkExistingVMs
  \/ checkDNSService
  \/ checkConflictingDNSRecords
  \/ createLBCmd
  \/ ConfigureLBVM
  \/ EnsureLibvirtNetworkConnect
  \/ EnsureLibvirtNetwork
  \/ EnsureLibvirtNetworkCreate
  \/ getLibvirtBridge
  \/ getLibvirtNetworkGatewayIP
  \/ CreateLBVM
  \/ createAndStartLBVM
  \/ createAndStartLBVMStart
  \/ GuestShutsOff
  \/ CreateLBVMWaitForVMIP
  \/ CreateLBVMReserve
  \/ CreateLBVMUpdateClusterDNS
  \/ CreateLBVMReloadDNS
  \/ removeOldHostKeyIP
  \/ removeOldHostKeyHost
  \/ WaitForSSHAccess
  \/ GuestSSHUp
  \/ createLBCmdReturn
  \/ TestDNS
  \/ TestDNSCreateTestHostsFile
  \/ TestDNSCreateDNSConfigFile
  \/ TestDNSReloadDNS
  \/ TestDNSRunDNSTests
  \/ TestDNSCleanup
  \/ downloadCmd
  \/ downloadCmdCreateHostsAndDNSConfig
  \/ downloadCmdFetch

CmdSpec == InitCmd /\ [][NextCmd]_vars

\* The systemd wrapper on its own: a caller holds a struct built as
\* &systemd.Systemd{Name: ...} and calls its methods in any order, each
\* command succeeding or failing
InitSys ==
  /\ params = [NMaster |-> 0, NWorker |-> 0, VirNet |-> VirNet, VMDir |-> LBImageDir]
  /\ pc = "systemd"
  /\ role = 1
  /\ i = 1
  /\ waitRet = [ip |-> "", mac |-> "", err |-> ""]
  /\ leaseSrc = << >>
  /\ slept = 0
  /\ sshIP = ""
  /\ sshHost = ""
  /\ sshUser = ""
  /\ sshAttempts = 0
  /\ sshUp = FALSE
  /\ result = "running"
  /\ log = << >>
  /\ domains = {}
  /\ networks = {}
  /\ reservations = {}
  /\ hostsFile = NoFile
  /\ cmd = "root"
  /\ virNetOct = ""
  /\ defLibvirtNet = ""
  /\ virNet = ""
  /\ netRet = NoNetRet
  /\ netDesc = << >>
  /\ domainXML = << >>
  /\ running = {}
  /\ submitted = << >>
  /\ lbErr = ""
  /\ dnsFiles = NoFiles
  /\ svc \in {Systemd(dnsSvc), Systemd("virtnetworkd")}
  /\ sysCall = NoSysCall
  /\ sysLast = ""
  /\ persistent = domains

NextSys ==
  \/ SystemdCheckStatus
  \/ SystemdStart
  \/ SystemdStop
  \/ SystemdRestart
  \/ SystemdReload
  \/ SystemdEnable
  \/ SystemdDisable

SysSpec == InitSys /\ [][NextSys]_vars

\* The libvirt package's calls by domain name on their own: a caller that
\* holds a connection calls StartVM, StopVM and DestroyVM in any order on
\* domains that are absent, transient and running, persistent and shut off,
\* or persistent and running. No command of the program calls StopVM or
\* DestroyVM. log holds the last call.
StartVMCall ==
  /\ pc = "libvirt"
  /\ \E name \in {VMNameRole("lb"), VMNameCluster}, refused \in BOOLEAN :
       LET st == StartVM(domains, running, name, refused)
       IN /\ running' = st.run
          /\ log' = << Call("StartVM", NoNode, name, "", "", "", st.err) >>
  /\ UNCHANGED << prog, sshv, flags, netv, networks, reservations, submitted,
                  hostsFile, dnsFiles, sysv, pc, result, domains, domainXML,
                  persistent >>

StopVMCall ==
  /\ pc = "libvirt"
  /\ \E name \in {VMNameRole("lb"), VMNameCluster}, refused \in BOOLEAN :
       LET st == StopVM(domains, running, persistent, name, refused)
       IN /\ domains' = st.doms
          /\ domainXML' = [n \in st.doms |-> domainXML[n]]
          /\ running' = st.run
          /\ persistent' = st.pers
          /\ log' = << Call("StopVM", NoNode, name, "", "", "", st.err) >>
  /\ UNCHANGED << prog, sshv, flags, netv, networks, reservations, submitted,
                  hostsFile, dnsFiles, sysv, pc, result >>

DestroyVMCall ==
  /\ pc = "libvirt"
  /\ \E name \in {VMNameRole("lb"), VMNameCluster}, refused \in BOOLEAN :
       LET d == DestroyVM(domains, running, persistent, name, refused)
       IN /\ domains' = d.doms
          /\ domainXML' = [n \in d.doms |-> domainXML[n]]
          /\ running' = d.run
          /\ persistent' = d.pers
          /\ log' = << Call("DestroyVM", NoNode, name, "", "", "", d.err) >>
  /\ UNCHANGED << prog, sshv, flags, netv, networks, reservations, submitted,
                  hostsFile, dnsFiles, sysv, pc, result >>

InitVM ==
  /\ params = [NMaster |-> 0, NWorker |-> 0, VirNet |-> VirNet,
               VMDir |-> LBImageDir]
  /\ cmd = ""
  /\ pc = "libvirt"
  /\ virNetOct = ""
  /\ defLibvirtNet = ""
  /\ role = 1
  /\ i = 1
  /\ waitRet = [ip |-> "", mac |-> "", err |-> ""]
  /\ leaseSrc = << >>
  /\ slept = 0
  /\ sshIP = ""
  /\ sshHost = ""
  /\ sshUser = ""
  /\ sshAttempts = 0
  /\ sshUp = FALSE
  /\ result = "running"
  /\ log = << >>
  /\ networks = {}
  /\ netDesc = << >>
  /\ domains \in SUBSET {VMNameRole("lb"), VMNameCluster}
  /\ running \in SUBSET domains
  /\ persistent \in SUBSET domains
  /\ domains = running \cup persistent
  /\ domainXML = [n \in domains |-> StrayDomainXML(n)]
  /\ submitted = << >>
  /\ reservations = {}
  /\ hostsFile = NoFile
  /\ virNet = ""
  /\ netRet = NoNetRet
  /\ lbErr = ""
  /\ dnsFiles = NoFiles
  /\ svc = Systemd(dnsSvc)
  /\ sysCall = NoSysCall
  /\ sysLast = ""

VMSpec == InitVM /\ [][StartVMCall \/ StopVMCall \/ DestroyVMCall]_vars

\* ------------------------------------------------------------------ claims
IsPrefixOf(s, t) ==
  /\ Len(s) <= Len(t)
  /\ \A k \in 1..Len(s) : s[k] = t[k]

Creates == SelectSeq(log, LAMBDA e : e.op = "CreateVM")
Addressing ==
  SelectSeq(log, LAMBDA e : e.op \in {"waitForVMIP", "AddDHCPReservation",
                                      "updateHostDNS"})

\* The cohort in creation order, by VM name
ExpectedCreates ==
  << << "bootstrap" >> >>
    \o [k \in 1..params.NMaster |-> << "master", k >>]
    \o [k \in 1..params.NWorker |-> << "worker", k >>]

\* The cohort in role-major order, by role and ordinal
ExpectedVisit ==
  << << "bootstrap", 1 >> >>
    \o [k \in 1..params.NMaster |-> << "master", k >>]
    \o [k \in 1..params.NWorker |-> << "worker", k >>]

AddressingSteps == << "waitForVMIP", "AddDHCPReservation", "updateHostDNS" >>

\* C1: a failed VM creation (bootstrap or any master/worker) is the last call
\* of the run: no later creation, no lease query, no reservation, no DNS
\* record and no SSH wait follow it, and the command has ended.
C1_FailFast ==
  \A k \in 1..Len(log) :
    (log[k].op = "CreateVM" /\ log[k].res # "") =>
      (k = Len(log) /\ pc = "exit" /\ result # "ok")

C1_Witness ==
  /\ params.NMaster = 2
  /\ params.NWorker = 1
  /\ Len(log) = 3
  /\ log[3].op = "CreateVM"
  /\ log[3].name = << "master", 2 >>
  /\ log[3].res # ""
  /\ log[1].res = "" /\ log[2].res = ""
  /\ pc = "exit"

\* C2: creation calls are issued in the order bootstrap, master-1..N,
\* worker-1..M, and every lease query of the addressing stage comes after
\* the successful creation of every node of the cohort.
C2_CreateOrder ==
  /\ IsPrefixOf([k \in 1..Len(Creates) |-> Creates[k].name], ExpectedCreates)
  /\ \A k \in 1..Len(log) :
       log[k].op = "waitForVMIP" =>
         \A j \in 1..Len(ExpectedCreates) :
           \E m \in 1..(k - 1) :
             /\ log[m].op = "CreateVM"
             /\ log[m].name = ExpectedCreates[j]
             /\ log[m].res = ""

C2_Witness ==
  /\ params.NMaster = 2
  /\ params.NWorker = 1
  /\ Len(log) = 5
  /\ log[4].op = "CreateVM" /\ log[4].name = << "worker", 1 >>
  /\ log[5].op = "waitForVMIP"

\* C3: the addressing calls are, node by node in role-major order, the lease
\* wait, the DHCP reservation and the DNS record; a node's three steps have
\* all returned without error before the next node's lease wait is issued;
\* with 2 masters and 1 worker the nodes visited by a complete addressing
\* stage are bootstrap, master-1, master-2, worker-1.
C3_RoleMajorOrder ==
  /\ Len(Addressing) <= 3 * Len(ExpectedVisit)
  /\ \A k \in 1..Len(Addressing) :
       /\ Addressing[k].op = AddressingSteps[((k - 1) % 3) + 1]
       /\ Addressing[k].node = ExpectedVisit[((k - 1) \div 3) + 1]
       /\ (k % 3 = 2) => Addressing[k - 1].res \in {"lease", "none"}
       /\ (k % 3 = 0) => Addressing[k - 1].res = ""
       /\ (k % 3 = 1 /\ k > 1) =>
            /\ Addressing[k - 3].res = "lease"
            /\ Addressing[k - 2].res = ""
            /\ Addressing[k - 1].res = ""
  /\ (params.NMaster = 2 /\ params.NWorker = 1 /\ Len(Addressing) = 12) =>
       [k \in 1..4 |-> Addressing[3 * k].node] =
         << << "bootstrap", 1 >>, << "master", 1 >>, << "master", 2 >>,
            << "worker", 1 >> >>

C3_Witness ==
  /\ params.NMaster = 2
  /\ params.NWorker = 1
  /\ Len(Addressing) = 12
  /\ Addressing[12].res = ""
  /\ pc = "final_getip"

\* C4: a lease query that succeeds but reports no IPv4 entry with a non-empty
\* MAC is followed by another round of the wait (the poller stays in the
\* lease wait and queries again).
C4_RetriesNoLease ==
  [][(pc = "lease_wait" /\ Len(log') = Len(log) + 1
        /\ log'[Len(log')].op = "waitForVMIP" /\ log'[Len(log')].res = "none")
       => pc' = "lease_wait"]_vars

\* Whether entry b of interface a is an IPv4 address on an interface with a
\* non-empty hardware address
ValidEntry(ifaces, a, b) ==
  /\ a \in 1..Len(ifaces)
  /\ b \in 1..Len(ifaces[a].addrs)
  /\ ifaces[a].hwaddr # ""
  /\ ifaces[a].addrs[b].type = "ipv4"

\* C5: whenever the lease wait has returned without an error, the returned
\* pair has a non-empty IP and a non-empty MAC and is the first valid entry
\* (IPv4, interface with a hardware address) of the hypervisor's answer.
C5_ValidLease ==
  (pc = "reserve") =>
    /\ waitRet.ip # ""
    /\ waitRet.mac # ""
    /\ \E a \in 1..Len(leaseSrc) :
         \E b \in 1..Len(leaseSrc[a].addrs) :
           /\ ValidEntry(leaseSrc, a, b)
           /\ waitRet.ip = leaseSrc[a].addrs[b].addr
           /\ waitRet.mac = leaseSrc[a].hwaddr
           /\ \A a2 \in 1..a :
                \A b2 \in 1..Len(leaseSrc[a2].addrs) :
                  (a2 < a \/ b2 < b) => ~ValidEntry(leaseSrc, a2, b2)

\* C6: a lease query that ends in a hard hypervisor error (domain lookup or
\* interface-address query) is the last call of the run: the wait has slept
\* once and returned that error, and no further query, no DHCP reservation
\* and no DNS record follow for that VM.
C6_HardErrorStops ==
  \A k \in 1..Len(log) :
    (log[k].op = "waitForVMIP" /\ log[k].res \in {"lookup", "ifaces"}) =>
      /\ k = Len(log)
      /\ pc = "exit"
      /\ result # "ok"
      /\ waitRet.err = log[k].res
      /\ slept = LeaseDelay
      /\ \A m \in 1..Len(log) :
           log[m].op \in {"AddDHCPReservation", "updateHostDNS"} =>
             log[m].node # log[k].node

C6_Witness ==
  /\ Len(log) > 0
  /\ log[Len(log)].op = "waitForVMIP"
  /\ log[Len(log)].res = "ifaces"
  /\ log[Len(log)].node = << "master", 1 >>
  /\ pc = "exit"

\* C7: every change of /etc/hosts.<cluster> keeps the lines it held and adds
\* exactly one line.
C7_AppendOnly ==
  [][hostsFile' # hostsFile =>
       /\ Len(hostsFile'.lines) = Len(hostsFile.lines) + 1
       /\ SubSeq(hostsFile'.lines, 1, Len(hostsFile.lines)) = hostsFile.lines]_vars

\* C8: every DHCP reservation is requested on the cluster's network, with the
\* MAC and the IP that the lease wait of the same node returned.
C8_ReserveArgs ==
  \A k \in 1..Len(log) :
    log[k].op = "AddDHCPReservation" =>
      /\ log[k].net = params.VirNet
      /\ \E j \in 1..(k - 1) :
           /\ log[j].op = "waitForVMIP"
           /\ log[j].node = log[k].node
           /\ log[k].mac = log[j].mac
           /\ log[k].ip = log[j].ip

\* C9: when the bootstrap SSH wait starts, every node of the cohort has a
\* non-empty leased (IP, MAC) pair, a DHCP reservation of that pair on the
\* cluster's network, and a line for it in /etc/hosts.<cluster>.
C9_AllAddressedBeforeSSH ==
  (\E k \in 1..Len(log) : log[k].op = "WaitForSSHAccess" /\ Len(Creates) > 0) =>
    \A n \in 1..Len(ExpectedVisit) :
      \E j \in 1..Len(log) :
        /\ log[j].op = "waitForVMIP"
        /\ log[j].node = ExpectedVisit[n]
        /\ log[j].ip # ""
        /\ log[j].mac # ""
        /\ [net |-> params.VirNet, mac |-> log[j].mac, ip |-> log[j].ip]
             \in reservations
        /\ \E l \in 1..Len(hostsFile.lines) :
             \E e \in 1..Len(hostsFile.lines[l]) :
               /\ hostsFile.lines[l][e].ip = log[j].ip
               /\ hostsFile.lines[l][e].host = log[j].name

\* C10: once both host keys are purged, a round of the SSH wait ends the call
\* only with success and only when the attempt was accepted; a failed attempt
\* leaves the call waiting for its next attempt; and once the host accepts
\* attempts the call returns success.
C10_SSHWait ==
  /\ [][pc = "ssh_loop" =>
          IF sshUp /\ sshIP # ""
          THEN pc' = "exit" /\ result' = "ok"
          ELSE pc' = "ssh_loop" /\ result' = "running"]_vars
  /\ ((pc = "ssh_loop" /\ sshUp /\ sshIP # "") ~> (pc = "exit" /\ result = "ok"))

C10_Witness ==
  /\ pc = "exit"
  /\ result = "ok"
  /\ sshAttempts >= 2
  /\ Len(log) = 3
  /\ log[1].op = "WaitForSSHAccess"

Purges == SelectSeq(log, LAMBDA e : e.op = "removeOldHostKey")

\* C11: WaitForSSHAccess purges the recorded host key of the literal IP and
\* then that of the DNS host name, in this order, before its first SSH
\* attempt: no attempt is made unless both purges have returned without
\* error, and a purge that fails is the last step of the call, which returns
\* the error without any SSH attempt.
C11_PurgeBeforeSSH ==
  /\ Len(Purges) <= 2
  /\ Len(Purges) >= 1 => Purges[1].ip = sshIP
  /\ Len(Purges) = 2 => (Purges[2].ip = sshHost /\ Purges[1].res = "")
  /\ sshAttempts > 0 =>
       (Len(Purges) = 2 /\ Purges[1].res = "" /\ Purges[2].res = "")
  /\ \A k \in 1..Len(Purges) :
       Purges[k].res # "" =>
         /\ k = Len(Purges)
         /\ log[Len(log)] = Purges[k]
         /\ sshAttempts = 0
         /\ pc = "exit"
         /\ result = "err"

C11_Witness ==
  /\ Len(Purges) = 2
  /\ Purges[1].ip \in IPv4Addrs
  /\ Purges[1].res = ""
  /\ Purges[2].ip = SSHHost("lb")
  /\ Purges[2].res # ""
  /\ sshAttempts = 0
  /\ pc = "exit"
  /\ result = "err"

\* C12: in create-lb, CreateLBVM is invoked, and the load-balancer VM is
\* created, only after EnsureLibvirtNetwork has returned without error: an
\* error from it ends the run before CreateLBVM.
C12_LBFailClosed ==
  \A k \in 1..Len(log) :
    (cmd = "create-lb" /\ log[k].op \in {"CreateLBVM", "CreateVM"}) =>
      /\ netRet.err = ""
      /\ \E j \in 1..(k - 1) : log[j].op = "EnsureLibvirtNetwork"

\* C13: whenever CreateLBVM has returned an error, create-lb ends with a
\* failure result, never with success.
C13_LBErrorFails ==
  (cmd = "create-lb" /\ pc = "exit" /\ lbErr = "err") => result \in {"err", "fatal"}

\* Calls on the hypervisor that EnsureLibvirtNetwork makes
NetOps == {"NewLibvirtConnection", "LookupNetworkByName", "NetworkDefineXML",
           "SetAutostart", "NetworkCreate", "GetBridgeName", "GetXMLDesc"}
\* Positions at which EnsureLibvirtNetwork has not returned yet
NetPCs == {"root_flags", "lb_haproxy", "lb_configure", "net_connect",
           "net_resolve", "net_define", "net_bridge", "net_gateway"}

EnsureCalled == \E k \in 1..Len(log) : log[k].op = "EnsureLibvirtNetwork"
EnsureReturned == EnsureCalled /\ pc \notin NetPCs
EnsureSucceeded == EnsureReturned /\ netRet.err = ""

\* C14: when EnsureLibvirtNetwork is called with both or with neither of
\* octet and existing name, it returns an error, and it makes no hypervisor
\* call (connect, lookup, define, autostart, start, queries) before that.
C14_ExactlyOneInput ==
  \A k \in 1..Len(log) :
    (log[k].op = "EnsureLibvirtNetwork" /\ (virNetOct = "") = (log[k].net = "")) =>
      /\ \A j \in (k + 1)..Len(log) :
           log[j].op \in NetOps =>
             \E m \in (k + 1)..(j - 1) : log[m].op = "CreateLBVM"
      /\ EnsureReturned => netRet.err # ""

\* Whether this run of EnsureLibvirtNetwork found no network under the name
\* the octet formats to
OctetNotFound ==
  /\ virNetOct # ""
  /\ \E k \in 1..Len(log) :
       /\ log[k].op = "LookupNetworkByName"
       /\ log[k].net = OcpNetworkName(virNetOct)
       /\ log[k].res # ""

Mutations == SelectSeq(log, LAMBDA e : e.op \in {"NetworkDefineXML",
                                                 "SetAutostart",
                                                 "NetworkCreate"})

\* C15: with an octet given and no network ocp-<octet> found, the calls that
\* follow are, each only after the previous one succeeded, the definition of
\* ocp-<octet> (gateway 192.168.<octet>.1, netmask 255.255.255.0, DHCP pool
\* .2 to .254), autostart and start; when EnsureLibvirtNetwork then returns
\* without error the network exists, is autostarted and is active. For octet
\* "100" these are ocp-100, 192.168.100.1, 192.168.100.2 and 192.168.100.254.
C15_CreateFromOctet ==
  (OctetNotFound /\ pc # "net_define") =>
    LET name == OcpNetworkName(virNetOct)
        n == Len(Mutations)
    IN /\ n \in 1..3
       /\ \A k \in 1..n :
            /\ Mutations[k].op = << "NetworkDefineXML", "SetAutostart",
                                    "NetworkCreate" >>[k]
            /\ Mutations[k].net = name
            /\ k < n => Mutations[k].res = ""
       /\ (n < 3 \/ Mutations[n].res # "") => (EnsureReturned /\ netRet.err # "")
       /\ Mutations[1].res = "" =>
            /\ name \in networks
            /\ netDesc[name].def.name = name
            /\ netDesc[name].def.address = "192.168." \o virNetOct \o ".1"
            /\ netDesc[name].def.netmask = "255.255.255.0"
            /\ netDesc[name].def.rangeStart = "192.168." \o virNetOct \o ".2"
            /\ netDesc[name].def.rangeEnd = "192.168." \o virNetOct \o ".254"
            /\ virNetOct = "100" =>
                 /\ name = "ocp-100"
                 /\ netDesc[name].def.address = "192.168.100.1"
                 /\ netDesc[name].def.rangeStart = "192.168.100.2"
                 /\ netDesc[name].def.rangeEnd = "192.168.100.254"
       /\ EnsureSucceeded =>
            /\ n = 3
            /\ name \in networks
            /\ netDesc[name].autostart
            /\ netDesc[name].active

C15_Witness ==
  /\ OctetNotFound
  /\ virNetOct = "100"
  /\ EnsureSucceeded
  /\ Len(Mutations) = 3
  /\ netDesc["ocp-100"].active
  /\ netRet.gateway = << "192.168.100.1" >>

\* C16: whenever EnsureLibvirtNetwork has returned without error (fresh
\* creation, reuse of ocp-<octet>, or lookup of the existing name), the
\* network it resolved exists and is started.
C16_ResolvedIsStarted ==
  EnsureSucceeded => (virNet \in networks /\ netDesc[virNet].active)

\* C17: the network set and the network objects change only in a run with an
\* octet whose network ocp-<octet> was not found, and only by defining,
\* autostarting and starting that network; a found ocp-<octet> is reused as
\* it is; with an existing name nothing is ever created, and a missing one
\* makes EnsureLibvirtNetwork return an error.
C17_MutateOnlyOnCreate ==
  /\ [][(networks' # networks \/ netDesc' # netDesc) =>
          /\ virNetOct # ""
          /\ OcpNetworkName(virNetOct) \notin networks
          /\ networks' = networks \cup {OcpNetworkName(virNetOct)}
          /\ \A n \in networks : netDesc'[n] = netDesc[n]]_vars
  /\ [](\A k \in 1..Len(Mutations) :
          /\ OctetNotFound
          /\ Mutations[k].net = OcpNetworkName(virNetOct))
  /\ []((virNetOct = "" /\ EnsureReturned
          /\ \E k \in 1..Len(log) :
               log[k].op = "LookupNetworkByName" /\ log[k].res # "")
         => netRet.err # "")

C17_Witness ==
  /\ virNetOct = ""
  /\ EnsureReturned
  /\ cmd = "root"
  /\ log[Len(log)].op = "LookupNetworkByName"
  /\ log[Len(log)].net = "default"
  /\ log[Len(log)].res # ""
  /\ netRet.err = "lookup"
  /\ OcpNetworkName("100") \in networks

\* C18: when EnsureLibvirtNetwork, called with exactly one of octet and
\* existing name, has returned without error, the bridge name it returned is
\* not empty and, the network's definition holding a gateway address, the
\* gateway it returned is exactly that address: 192.168.<octet>.1 for a
\* network created from the octet.
C18_BridgeAndGateway ==
  \A k \in 1..Len(log) :
    (log[k].op = "EnsureLibvirtNetwork" /\ (virNetOct = "") # (log[k].net = "")
       /\ EnsureSucceeded) =>
      /\ netRet.bridge # ""
      /\ virNet \in networks
      /\ netDesc[virNet].def.address # "" =>
           netRet.gateway = << netDesc[virNet].def.address >>
      /\ OctetNotFound =>
           netRet.gateway = << "192.168." \o virNetOct \o ".1" >>

C18_Witness ==
  /\ virNetOct = ""
  /\ defLibvirtNet = "default"
  /\ EnsureSucceeded
  /\ netRet.bridge = "virbr0"
  /\ netRet.gateway = << "192.168.122.1" >>

\* The VMParams of every node of the cluster: the cohort and the load balancer
ClusterNodes ==
  {bootstrapParams(params)}
    \cup {masterParams(params, k) : k \in 1..params.NMaster}
    \cup {workerParams(params, k) : k \in 1..params.NWorker}
    \cup {lbVMParams(params.VirNet)}

\* C19: for a fixed cluster name and VM directory, the VM names of the
\* bootstrap node, the masters, the workers and the load balancer are pairwise
\* distinct, and so are their disk image paths; every VMParams passed to
\* CreateVM is that of one node, and no two calls share a name or a path.
C19_DistinctIdentity ==
  /\ Cardinality(ClusterNodes) = 2 + params.NMaster + params.NWorker
  /\ \A a, b \in ClusterNodes :
       a # b => (a.Name # b.Name /\ a.DiskPath # b.DiskPath)
  /\ \A j, k \in 1..Len(submitted) :
       /\ submitted[k] \in ClusterNodes
       /\ j # k => /\ submitted[j].Name # submitted[k].Name
                   /\ submitted[j].DiskPath # submitted[k].DiskPath

C19_Witness ==
  /\ params.NMaster = 2
  /\ params.NWorker = 1
  /\ Len(submitted) = 4
  /\ \A k \in 1..4 : submitted[k].Name \in domains
  /\ submitted[2].DiskPath = << LBImageDir, << "master", 1 >>, "qcow2" >>
  /\ submitted[3].DiskPath = << LBImageDir, << "master", 2 >>, "qcow2" >>

\* C20: a CreateVM call for a name that exists on the hypervisor returns an
\* error and leaves the domains and their definitions as they were, and the
\* run ends there with a fatal error: a failed creation is the last call, so
\* no later node is created.
C20_CreateNotIdempotent ==
  /\ [][(Len(submitted') = Len(submitted) + 1
           /\ submitted'[Len(submitted')].Name \in domains) =>
          /\ log'[Len(log')].op = "CreateVM"
          /\ log'[Len(log')].res # ""
          /\ domains' = domains
          /\ domainXML' = domainXML
          /\ pc' = "exit"
          /\ result' = "fatal"]_vars
  /\ [](\A k \in 1..Len(log) :
          (log[k].op = "CreateVM" /\ log[k].res # "") =>
            (k = Len(log) /\ Len(submitted) = Len(Creates) /\ pc = "exit"
               /\ result = "fatal"))

C20_Witness ==
  /\ params.NMaster = 2
  /\ Len(log) = 2
  /\ log[1].op = "CreateVM" /\ log[1].res = ""
  /\ log[2].op = "CreateVM" /\ log[2].res # ""
  /\ log[2].name = VMNameRoleIdx("master", 1)
  /\ VMNameRoleIdx("master", 1) \in domains
  /\ domainXML[VMNameRoleIdx("master", 1)]
       = StrayDomainXML(VMNameRoleIdx("master", 1))
  /\ VMNameRoleIdx("master", 2) \notin domains
  /\ pc = "exit"
  /\ result = "fatal"

\* ------------------------------------------------------------ C21 .. C30

\* Number of queries of node n so far that succeeded without a valid entry
FailedAttempts(l, n) ==
  Cardinality({ k \in 1..Len(l) :
                  l[k].op = "waitForVMIP" /\ l[k].node = n /\ l[k].res = "none" })

\* C21: the lease wait sleeps one delay per unsuccessful attempt: an attempt
\* that finds no valid IPv4 entry leaves the wait running, and the attempt
\* that finds one returns with N * LeaseDelay slept, N being the number of
\* unsuccessful attempts made for that node.
C21_DelayPerFailedAttempt ==
  [][(pc = "lease_wait" /\ Len(log') = Len(log) + 1
        /\ log'[Len(log')].op = "waitForVMIP") =>
       /\ log'[Len(log')].res = "none" => pc' = "lease_wait"
       /\ log'[Len(log')].res = "lease" =>
            slept' = FailedAttempts(log', log'[Len(log')].node) * LeaseDelay]_vars

\* Names of the VMs whose creation the hypervisor accepted during this run
CreatedNames ==
  { log[k].name : k \in { j \in 1..Len(log) :
                            log[j].op = "CreateVM" /\ log[j].res = "" } }

\* Names the lease waits of this run have queried
QueriedNames ==
  { log[k].name : k \in { j \in 1..Len(log) : log[j].op = "waitForVMIP" } }

\* C22: every lease wait queries a VM that this run created: each queried
\* name is the name of an accepted creation, the load balancer's wait queries
\* <cluster>-lb, and once the cohort's addressing loop is over the queried
\* names are exactly the created names.
C22_WaitTargetsCreated ==
  /\ QueriedNames \subseteq CreatedNames
  /\ \A k \in 1..Len(log) :
       (log[k].op = "waitForVMIP" /\ log[k].node = << "lb" >>) =>
         log[k].name = VMNameRole("lb")
  /\ (cmd = "root" /\ pc = "final_getip") => QueriedNames = CreatedNames

\* The calls CreateLBVM makes, step by step: create the VM (CreateVM and
\* StartVM), wait for the lease, pin the reservation, publish the DNS line,
\* reload the resolver (two restarts), wait for SSH
LBOrder ==
  << "CreateVM", "StartVM", "waitForVMIP", "AddDHCPReservation",
     "updateClusterDNS", "Restart", "Restart", "WaitForSSHAccess" >>

LBSteps == SelectSeq(log, LAMBDA e : e.op \in { LBOrder[k] : k \in DOMAIN LBOrder })

\* The call returned nil (a lease wait returns nil with or without a lease)
Succeeded(e) == e.res \in {"", "none", "lease"}

\* C23: CreateLBVM runs its steps in the fixed order create, lease wait,
\* reservation, DNS line, resolver reload, SSH wait; a step starts only after
\* every earlier step returned nil, and a step that fails is the last one:
\* CreateLBVM returns its error.
C23_LBStepOrder ==
  cmd = "create-lb" =>
    /\ IsPrefixOf([k \in 1..Len(LBSteps) |-> LBSteps[k].op], LBOrder)
    /\ \A k \in 1..Len(LBSteps) :
         /\ k < Len(LBSteps) => Succeeded(LBSteps[k])
         /\ ~Succeeded(LBSteps[k]) =>
              \/ pc = "lb_return" /\ result = "err"
              \/ pc = "exit" /\ lbErr = "err"
    /\ \A k \in 1..Len(LBSteps) :
         LBSteps[k].op = "updateClusterDNS" /\ Succeeded(LBSteps[k]) =>
           /\ LBSteps[k].ip = LBSteps[3].ip
           /\ LBSteps[4].ip = LBSteps[3].ip /\ LBSteps[4].mac = LBSteps[3].mac

\* The whole sequence has run up to the SSH wait, and the DNS line is the
\* last line of the file
C23_Witness ==
  /\ cmd = "create-lb"
  /\ Len(LBSteps) = 8
  /\ LBSteps[3].res = "lease"
  /\ hostsFile.exists
  /\ hostsFile.lines[Len(hostsFile.lines)]
       = << HostsEntry(LBSteps[3].ip, "lb api api-int") >>

\* C24: a resolver reload restarts the name-resolution service first and
\* virtnetworkd second, with a pause in between: every restart of
\* virtnetworkd comes right after a pause that comes right after a
\* successful restart of the DNS service, every successful restart of the
\* DNS service is followed by the pause and the restart of virtnetworkd, and
\* a failed restart of the DNS service is the last call (the error is
\* returned, virtnetworkd is not restarted). The DNS service is the one the
\* caller names: dnsSvc for create-lb and the DNS check, dnsmasq for Cleanup.
C24_ReloadOrder ==
  \A k \in 1..Len(log) :
    log[k].op = "Restart" =>
      IF log[k].net = "virtnetworkd"
      THEN /\ k >= 3
           /\ log[k-1].op = "Sleep"
           /\ log[k-2].op = "Restart"
           /\ log[k-2].net \in {dnsSvc, "dnsmasq"}
           /\ log[k-2].res = ""
      ELSE IF log[k].res = ""
      THEN /\ Len(log) >= k + 2
           /\ log[k+1].op = "Sleep"
           /\ log[k+2].op = "Restart"
           /\ log[k+2].net = "virtnetworkd"
      ELSE /\ k = Len(log)
           /\ \/ pc = "lb_return" /\ result = "err"
              \/ pc = "exit" /\ lbErr = "err"
              \/ pc = "exit" /\ cmd = "root" /\ result = "fatal"

\* A reload that went through: restart, pause, restart
C24_Witness ==
  /\ Len(log) >= 3
  /\ log[Len(log)].op = "Restart"
  /\ log[Len(log)].net = "virtnetworkd"
  /\ log[Len(log)].res = ""
  /\ log[Len(log)-2].net = dnsSvc
  /\ cmd = "create-lb"

\* The ignition file of an install-time role
IgnitionOf(r) ==
  CASE r = "bootstrap" -> "bootstrap.ign"
    [] r = "master" -> "master.ign"
    [] r = "worker" -> "worker.ign"

\* C25: the definition the hypervisor received for a VM of an install-time
\* role (bootstrap, master, worker) carries the network-boot location and the
\* argument string that names the role's ignition file; the definition of
\* the load balancer carries neither.
C25_InstallBootArgs ==
  \A k \in 1..Len(log) :
    (log[k].op = "CreateVM" /\ log[k].res = "" /\ log[k].name \in domains) =>
      LET xml == domainXML[log[k].name]
          r == log[k].name[1]
      IN IF r \in {"bootstrap", "master", "worker"}
         THEN /\ {"location", "extraArgs"} \subseteq DOMAIN xml
              /\ xml.location = "rhcos-install/"
              /\ xml.extraArgs = IgnitionOf(r)
         ELSE {"location", "extraArgs"} \cap DOMAIN xml = {}

\* C26: once the hypervisor has accepted the load balancer's definition, the
\* VM is running and createAndStartLBVM goes on to the lease wait: no start
\* request is issued against a domain that is already running, and the step
\* after an accepted creation does not end in an error.
C26_NoStartOnRunning ==
  [][(pc = "lb_start" /\ VMNameRole("lb") \in running /\ pc' # "lb_start") =>
       /\ log'[Len(log')].op # "StartVM"
       /\ pc' = "lb_wait"
       /\ VMNameRole("lb") \in running']_vars

\* C27: in create-lb the load balancer uses the network EnsureLibvirtNetwork
\* resolved: the VM's interface is attached to it and the DHCP reservation is
\* added to it; with an octet given that network is ocp-<octet>.
C27_LBUsesResolved ==
  cmd = "create-lb" =>
    \A k \in 1..Len(log) :
      log[k].op \in {"CreateVM", "AddDHCPReservation"} =>
        /\ netRet.err = "" => log[k].net = virNet
        /\ virNetOct # "" => log[k].net = OcpNetworkName(virNetOct)
        /\ (log[k].op = "CreateVM" /\ log[k].res = ""
              /\ log[k].name \in domains /\ netRet.err = "") =>
             domainXML[log[k].name].network = virNet

\* C28: the SSH wait that ends CreateNodes starts only with a non-empty IP,
\* the address the final lease query reported for the bootstrap VM; a final
\* query that fails or reports no address makes CreateNodes return an error
\* without any SSH call.
C28_BootstrapSSHNeedsIP ==
  \A k \in 1..Len(log) :
    /\ log[k].op = "WaitForSSHAccess" =>
         /\ log[k].ip # ""
         /\ k > 1
         /\ log[k-1].op = "GetVMIP"
         /\ log[k-1].res = "lease"
         /\ log[k-1].ip = log[k].ip
    /\ (log[k].op = "GetVMIP" /\ log[k].res # "lease") =>
         /\ k = Len(log)
         /\ pc = "exit"
         /\ result = "err"

\* TestDNS has created at least one of its two files
TestFilesCreated ==
  \E k \in 1..Len(log) : log[k].op = "WriteFile" /\ log[k].res = ""

\* C29: the DNS check leaves no artifacts: once it has returned on a path
\* that created /etc/hosts.dnstest or <dnsDir>/dnstest.conf, neither file
\* exists and the resolver was reloaded after their removal.
C29_NoArtifacts ==
  (cmd = "root" /\ pc = "exit" /\ TestFilesCreated) =>
    /\ DOMAIN dnsFiles = {}
    /\ \E k \in 1..Len(log) :
         /\ log[k].op = "Remove"
         /\ \E j \in (k + 1)..Len(log) : log[j].op = "Restart"

\* C30: the systemd wrapper changes its cached state only on success. A call
\* of Start, Stop, Restart, Reload, Enable or Disable whose command failed
\* leaves Status and IsEnabled as they were; Start on a cached active Status
\* and Stop on a cached inactive Status issue no command; and after a
\* sequence of these calls the cached Status is active exactly when the last
\* of Start, Stop, Restart and Reload that returned nil was Start, Restart or
\* Reload.
C30_CacheOnlyOnSuccess ==
  /\ (sysCall.op \in {"Start", "Stop", "Restart", "Reload", "Enable", "Disable"}
        /\ sysCall.err # "") =>
       /\ svc.Status = sysCall.before.Status
       /\ svc.IsEnabled = sysCall.before.IsEnabled
       /\ Len(sysCall.cmds) = 1
  /\ (sysCall.op = "Start" /\ sysCall.before.Status = "active") =>
       (sysCall.cmds = << >> /\ sysCall.err = "" /\ svc = sysCall.before)
  /\ (sysCall.op = "Stop" /\ sysCall.before.Status = "inactive") =>
       (sysCall.cmds = << >> /\ sysCall.err = "" /\ svc = sysCall.before)
  /\ sysLast # "" =>
       (svc.Status = "active" <=> sysLast \in {"Start", "Restart", "Reload"})
  /\ svc.Name = sysCall.before.Name \/ sysCall.op = ""

\* A restart that failed after a successful stop: the cached Status is still
\* inactive
C30_Witness ==
  /\ sysCall.op = "Restart"
  /\ sysCall.err # ""
  /\ sysCall.cmds = << << "restart", svc.Name >> >>
  /\ sysLast = "Stop"
  /\ svc.Status = "inactive"
  /\ svc.IsEnabled

====
